---- MODULE Spec2Model ----
(***************************************************************************)
(* Model of the deinflection engine of ext/bg/js/deinflector.js and of the  *)
(* promise and event helpers of ext/js/core.js.                            *)
(*                                                                         *)
(* A string is a sequence of characters; the kana of the examples are      *)
(* written in romaji ("ta" for the kana TA, "ru" for RU, "shoku" and "be"  *)
(* for the two characters of the stem of taberu).  A rule list is an       *)
(* array, modelled as a sequence.  A Deinflection object is identified by  *)
(* its position in the search tree: the root is <<>>, the child built for  *)
(* the i-th (reason, variant) pair of the rule table by node n is          *)
(* Append(n, i), and the child pushed by the validation callback of n is   *)
(* Append(n, 0).                                                           *)
(***************************************************************************)
EXTENDS Naturals, Integers, Sequences, FiniteSets

VARIABLES
    reasons,    \* Deinflector.reasons, the held rule table
    status,     \* the deinflect call: idle, pending, resolved, rejected, thrown, overflow
    table,      \* the 'reasons' argument bound in the call's closures
    node,       \* the Deinflection objects of the call, by position
    definer,    \* the definer, as far as it has answered: term -> outcome
    lookup,     \* per explored node, the state of its definer(term) promise
    fulfilled,  \* per explored node, the entries of 'promises' already fulfilled
    promise,    \* per explored node, the promise returned by its deinflect()
    joined,     \* explored nodes whose deinflect() promise the parent has observed
    result,     \* the path list the call resolved with
    error,      \* the error the call failed with
    other,      \* a second deinflect call on the same Deinflector, not in focus
    dp,         \* a DynamicProperty
    pt,         \* a promise made by promiseTimeout
    mh,         \* an invocation of invokeMessageHandler
    ed,         \* an EventDispatcher
    de,         \* values handed to clone and deepEqual
    qp          \* a QueryParser and its parseText requests

\* the state of one deinflect call
callVars == <<status, table, node, definer, lookup, fulfilled, promise,
              joined, result, error>>

\* the objects of core.js and of display/query-parser.js
coreVars == <<dp, pt, mh, ed, de, qp>>

vars == <<reasons, status, table, node, definer, lookup, fulfilled, promise,
          joined, result, error, other, dp, pt, mh, ed, de, qp>>

----------------------------------------------------------------------------
(* Bounds of the model. *)

\* largest number of kana in a surface term handed to deinflect
MaxTail == 2
\* largest number of reasons combined into a rule table
MaxReasons == 2

----------------------------------------------------------------------------
(* Strings. *)

Range(s) == {s[i] : i \in 1..Len(s)}

Min(a, b) == IF a < b THEN a ELSE b

Max(a, b) == IF a > b THEN a ELSE b

\* String.prototype.endsWith
EndsWith(s, suffix) ==
    /\ Len(suffix) <= Len(s)
    /\ SubSeq(s, Len(s) - Len(suffix) + 1, Len(s)) = suffix

\* String.prototype.slice(0, end): a negative end counts from the end of the
\* string, and an end of 0 (also the -0 of an empty suffix) is the start.
SliceTo(s, end) ==
    IF end < 0
      THEN SubSeq(s, 1, Max(Len(s) + end, 0))
      ELSE SubSeq(s, 1, Min(end, Len(s)))

\* Array.prototype.includes
Includes(array, x) == x \in Range(array)

----------------------------------------------------------------------------
(* The data the callers supply: rule tables, surface terms, definitions. *)

\* One variant of a reason: kanaIn, kanaOut, rulesIn, rulesOut.
Variant(kanaIn, kanaOut, rulesIn, rulesOut) ==
    [kanaIn |-> kanaIn, kanaOut |-> kanaOut, rulesIn |-> rulesIn, rulesOut |-> rulesOut]

\* "ta" -> "ru", the variant of the past-tense example
VPast == Variant(<<"ta">>, <<"ru">>, <<"v1">>, <<"v1">>)
\* a second spelling of the same reason, with a longer suffix
VPastAlt == Variant(<<"ru", "ta">>, <<"ru">>, <<"v1">>, <<"v1">>)
\* a variant that removes its suffix; it can rewrite a term to the empty string
VDrop == Variant(<<"ta">>, <<>>, <<"vs">>, <<"v1", "v5">>)
\* a variant whose kanaOut is as long as its kanaIn and that stays admissible
VSame == Variant(<<"ru">>, <<"ru">>, <<"v1">>, <<"v1">>)
\* a variant with an empty kanaIn
VEmptyIn == Variant(<<>>, <<"ru">>, <<"v5">>, <<"v1">>)

\* a variant with an empty kanaIn and an empty kanaOut
VEmptyBoth == Variant(<<>>, <<>>, <<"v5">>, <<"v1">>)

\* The entries (reason name, variants) rule tables are combined from.
ReasonPool ==
    { [name |-> "past", variants |-> <<VPast>>],
      [name |-> "potential", variants |-> <<VDrop>>],
      [name |-> "polite", variants |-> <<VSame>>] }

\* More tables: a reason with two variants, the empty kanaIn, and the
\* variant that rewrites nothing.
OneReasonTables ==
    { << [name |-> "past", variants |-> <<VPast, VPastAlt>>] >>,
      << [name |-> "masu stem", variants |-> <<VEmptyIn>>] >>,
      << [name |-> "plain", variants |-> <<VEmptyBoth>>] >> }

SeqsUpTo(S, n) == UNION {[1..k -> S] : k \in 0..n}

\* A rule table is an object: its keys (the reason names) are distinct and are
\* iterated in insertion order.
Tables ==
    {t \in SeqsUpTo(ReasonPool, MaxReasons) :
        \A i, j \in 1..Len(t) : i # j => t[i].name # t[j].name}
    \cup OneReasonTables

Stem == <<"shoku", "be">>

Kana == {"ta", "ru"}

\* The surface terms handed to deinflect (the empty string included): kana
\* alone, or the stem followed by kana.
Terms ==
    SeqsUpTo(Kana, MaxTail) \cup {Stem \o tail : tail \in SeqsUpTo(Kana, MaxTail - 1)}

\* Definitions, as far as the engine reads them: an identity and rule tags.
D1 == [id |-> "d1", rules |-> <<"v1">>]

D5 == [id |-> "d5", rules |-> <<"v5">>]

D15 == [id |-> "d15", rules |-> <<"v1", "v5">>]

\* The lists a definer call can resolve with.
DefinerResults == {<<>>, <<D1>>, <<D5, D15>>}

\* What a definer call does: its promise resolves with a list, its promise
\* rejects, or the call throws.
Resolves(definitions) == [how |-> "resolves", definitions |-> definitions]

Rejects == [how |-> "rejects", definitions |-> <<>>]

Throws == [how |-> "throws", definitions |-> <<>>]

----------------------------------------------------------------------------
(* class Deinflection: construction and rule expansion. *)

Root == <<>>

Parent(n) == SubSeq(n, 1, Len(n) - 1)

Last(n) == n[Len(n)]

\* new Deinflection(term, rules, reason)
Deinflection(term, rules, reason) ==
    [term |-> term, rules |-> rules, reason |-> reason,
     definitions |-> <<>>, children |-> <<>>]

\* The (reason, variant) pairs of a rule table in the order the two nested
\* loops of deinflect visit them.
RECURSIVE Pairs(_)
Pairs(tbl) ==
    IF tbl = <<>> THEN <<>>
    ELSE [k \in 1..Len(Head(tbl).variants) |->
             [reason |-> Head(tbl).name, variant |-> Head(tbl).variants[k]]]
         \o Pairs(Tail(tbl))

\* 'allowed': the entry point allows every variant, another node those whose
\* rulesIn holds one of its rules.
Allowed(rules, entry, variant) ==
    entry \/ \E k \in 1..Len(rules) : Includes(variant.rulesIn, rules[k])

\* The term of the child built for a variant.
Rewrite(term, variant) == SliceTo(term, -Len(variant.kanaIn)) \o variant.kanaOut

\* A fault C32 excludes: the loop without its test of the rewritten term's
\* length, so that a candidate with the empty term is built.
ExpandedKeepsEmpty(term, rules, entry, tbl) ==
    {i \in 1..Len(Pairs(tbl)) :
        /\ Allowed(rules, entry, Pairs(tbl)[i].variant)
        /\ EndsWith(term, Pairs(tbl)[i].variant.kanaIn)}

\* The pairs for which the loop body reaches 'new Deinflection'.
Expanded(term, rules, entry, tbl) ==
    {i \in 1..Len(Pairs(tbl)) :
        /\ Allowed(rules, entry, Pairs(tbl)[i].variant)
        /\ EndsWith(term, Pairs(tbl)[i].variant.kanaIn)
        /\ Len(Rewrite(term, Pairs(tbl)[i].variant)) # 0}

\* The objects the synchronous recursion of deinflect builds below (and
\* including) the node at position id.  The recursion has no base case of its
\* own: a child whose term and rules are those of a non-entry node above it
\* is expanded exactly as that node was, without end.  Such a child is
\* recorded with loop = TRUE and is where the model stops following it.
RECURSIVE Explore(_, _, _, _, _, _, _)
Explore(id, term, rules, reason, entry, tbl, above) ==
    LET loop == <<term, rules>> \in above
        self == [id |-> id, term |-> term, rules |-> rules, reason |-> reason,
                 loop |-> loop]
        here == IF entry THEN above ELSE above \cup {<<term, rules>>}
    IN  IF loop THEN {self}
        ELSE {self} \cup UNION
               { Explore(Append(id, i), Rewrite(term, Pairs(tbl)[i].variant),
                         Pairs(tbl)[i].variant.rulesOut, Pairs(tbl)[i].reason,
                         FALSE, tbl, here)
                 : i \in Expanded(term, rules, entry, tbl) }

\* a is built before b: the recursion is depth first, in pair order.
RECURSIVE Before(_, _)
Before(a, b) ==
    IF a = <<>> THEN b # <<>>
    ELSE IF b = <<>> THEN FALSE
    ELSE IF Head(a) # Head(b) THEN Head(a) < Head(b)
    ELSE Before(Tail(a), Tail(b))

----------------------------------------------------------------------------
(* validate and gather. *)

\* The definitions the non-entry branch of validate pushes: rule by rule,
\* every definition that includes the rule.
RECURSIVE PushMatching(_, _)
PushMatching(rules, definitions) ==
    IF rules = <<>> THEN <<>>
    ELSE SelectSeq(definitions, LAMBDA d : Includes(d.rules, Head(rules)))
         \o PushMatching(Tail(rules), definitions)

\* validate as it would be without the rule filter of its non-entry branch
\* (a fault C6 excludes)
ValidatedUnfiltered(rules, definitions, entry) == definitions

\* this.definitions after the callback of validate.
Validated(rules, definitions, entry) ==
    IF entry THEN definitions ELSE PushMatching(rules, definitions)

\* a property that was never assigned
Undefined == "undefined"

\* The loop body as it would be with unshift instead of push (a fault C5
\* excludes).
ExtendPathUnshift(this, path) ==
    [path EXCEPT !.definitions = @ \o this.definitions,
                 !.reasons = IF this.reason # "" THEN <<this.reason>> \o @ ELSE @,
                 !.source = this.term]

\* A fault C24 excludes: a level of gather leaves a source that is set.
ExtendPathKeepsSource(this, path) ==
    [path EXCEPT !.definitions = @ \o this.definitions,
                 !.reasons = IF this.reason # "" THEN Append(@, this.reason) ELSE @,
                 !.source = IF @ = Undefined THEN this.term ELSE @]

\* The body of the inner loop of gather, for one path of a child.
ExtendPath(this, path) ==
    [path EXCEPT !.definitions = @ \o this.definitions,
                 !.reasons = IF this.reason # "" THEN Append(@, this.reason) ELSE @,
                 !.source = this.term]

\* A fault C22 excludes: gather returns the paths of the first child only.
FlattenFirstOnly(lists) == IF lists = <<>> THEN <<>> ELSE Head(lists)

RECURSIVE Flatten(_)
Flatten(lists) ==
    IF lists = <<>> THEN <<>> ELSE Head(lists) \o Flatten(Tail(lists))

\* gather() of the object at position n of the tree nd.
RECURSIVE Gather(_, _)
Gather(nd, n) ==
    IF Len(nd[n].children) = 0
      THEN << [root |-> nd[n].term, rules |-> nd[n].rules,
               definitions |-> nd[n].definitions, reasons |-> <<>>,
               source |-> Undefined] >>
      ELSE Flatten([k \in 1..Len(nd[n].children) |->
                      LET paths == Gather(nd, nd[n].children[k])
                      IN  [j \in 1..Len(paths) |-> ExtendPath(nd[n], paths[j])]])

----------------------------------------------------------------------------
(* Promises. *)

Pending == [state |-> "pending", value |-> Undefined]

\* The explored objects: those on which deinflect was called.
Explored == DOMAIN lookup

\* The children the loop of node n built and called deinflect on.
Candidates(n) == {m \in Explored : m # Root /\ Parent(m) = n}

\* The entries of the 'promises' array of node n: 0 is the validation, i the
\* child of the i-th pair.
Promises(n) == {0} \cup {Last(m) : m \in Candidates(n)}

\* A fault C12 excludes: the promise of a node fulfils as soon as one entry
\* of 'promises' is fulfilled, as Promise.race would.
PromiseAllEager(p, done, all, children) ==
    IF p.state = "pending" /\ done # {}
      THEN [state |-> "fulfilled", value |-> Len(children) > 0]
      ELSE p

\* Promise.all(promises).then(() => this.children.length > 0), once the
\* entries in 'done' are fulfilled.
PromiseAll(p, done, all, children) ==
    IF p.state = "pending" /\ done = all
      THEN [state |-> "fulfilled", value |-> Len(children) > 0]
      ELSE p

\* A rejected entry rejects Promise.all, unless it is settled already.
RejectAll(p, reason) ==
    IF p.state = "pending" THEN [state |-> "rejected", value |-> reason] ELSE p

\* The error of a failed definer call, told apart by the term it was for.
DefinerError(term) == [definer |-> term]

EmptyMap == [n \in {} |-> n]

----------------------------------------------------------------------------
(* The state machine. *)

\* an object no operation of the specification at hand touches
Unused == [unused |-> TRUE]

\* new Deinflector()
Init ==
    /\ reasons = <<>>
    /\ status = "idle"
    /\ table = <<>>
    /\ node = EmptyMap
    /\ definer = EmptyMap
    /\ lookup = EmptyMap
    /\ fulfilled = EmptyMap
    /\ promise = EmptyMap
    /\ joined = {}
    /\ result = <<>>
    /\ error = Undefined
    /\ de = Unused
    /\ qp = Unused
    /\ other = Unused
    /\ dp = Unused
    /\ pt = Unused
    /\ mh = Unused
    /\ ed = Unused

\* Deinflector.setReasons, called before the call the model follows.
SetReasons(tbl) ==
    /\ status = "idle"
    /\ reasons # tbl
    /\ reasons' = tbl
    /\ UNCHANGED <<status, table, node, definer, lookup, fulfilled, promise,
                   joined, result, error>>

\* The tree deinflect builds for a term under the held rule table, were no
\* definer call to throw.
Tree(term) == Explore(Root, term, <<>>, "", TRUE, reasons, {})

\* A fault C27 excludes: deinflect takes the entries off the held table as it
\* goes through them, and leaves it empty.
DeinflectConsuming(term, throwing) ==
    LET tree == Tree(term)
        stops == {r \in tree : r.loop \/ r.term \in throwing}
        first == CHOOSE r \in stops : \A o \in stops : o = r \/ Before(r.id, o.id)
        built == IF stops = {} THEN tree
                 ELSE {r \in tree : r = first \/ Before(r.id, first.id)}
        ids == {r.id : r \in built}
        at(n) == CHOOSE r \in built : r.id = n
    IN  /\ status = "idle"
        /\ table' = <<>>
        /\ reasons' = <<>>
        /\ node' = [n \in ids |-> Deinflection(at(n).term, at(n).rules, at(n).reason)]
        /\ definer' = [t \in throwing |-> Throws]
        /\ lookup' = [n \in ids |-> "pending"]
        /\ fulfilled' = [n \in ids |-> {}]
        /\ promise' = [n \in ids |-> Pending]
        /\ status' = IF stops = {} THEN "pending"
                     ELSE IF first.term \in throwing THEN "thrown"
                     ELSE "overflow"
        /\ error' = IF stops # {} /\ first.term \in throwing
                      THEN DefinerError(first.term) ELSE error
        /\ UNCHANGED <<joined, result>>

\* Deinflector.deinflect(term, definer), up to the point where it returns its
\* promise: the whole tree of candidates is built and every definer call is
\* issued before anything resolves.  'throwing' are the terms for which the
\* definer throws instead of returning a promise.
Deinflect(term, throwing) ==
    LET tree == Tree(term)
        stops == {r \in tree : r.loop \/ r.term \in throwing}
        first == CHOOSE r \in stops : \A o \in stops : o = r \/ Before(r.id, o.id)
        built == IF stops = {} THEN tree
                 ELSE {r \in tree : r = first \/ Before(r.id, first.id)}
        ids == {r.id : r \in built}
        at(n) == CHOOSE r \in built : r.id = n
    IN  /\ status = "idle"
        /\ table' = reasons
        /\ node' = [n \in ids |-> Deinflection(at(n).term, at(n).rules, at(n).reason)]
        /\ definer' = [t \in throwing |-> Throws]
        /\ lookup' = [n \in ids |-> "pending"]
        /\ fulfilled' = [n \in ids |-> {}]
        /\ promise' = [n \in ids |-> Pending]
        /\ status' = IF stops = {} THEN "pending"
                     ELSE IF first.term \in throwing THEN "thrown"
                     ELSE "overflow"
        /\ error' = IF stops # {} /\ first.term \in throwing
                      THEN DefinerError(first.term) ELSE error
        /\ UNCHANGED <<reasons, joined, result>>

\* The definer is a function of the term: 'definer' records what it has
\* answered, and a term asked again gets the same answer.
Answers(term, outcome) == term \in DOMAIN definer => definer[term] = outcome

Answered(term, outcome) ==
    [t \in DOMAIN definer \cup {term} |-> IF t = term THEN outcome ELSE definer[t]]

\* A fault C31 excludes: deinflect is called on the child that stands for the
\* node itself, so the definer is asked for the node's term a second time.
ResolveExploresStopChild(n, definitions) ==
    LET this == node[n]
        child == Append(n, 0)
        after == [this EXCEPT
                    !.definitions = Validated(this.rules, definitions, n = Root),
                    !.children = Append(@, child)]
        with(f, new) == [m \in DOMAIN f \cup {child} |-> IF m = child THEN new ELSE f[m]]
    IN  /\ status \in {"pending", "rejected"}
        /\ lookup[n] = "pending"
        /\ Answers(this.term, Resolves(definitions))
        /\ definer' = Answered(this.term, Resolves(definitions))
        /\ lookup' = with([lookup EXCEPT ![n] = "fulfilled"], "pending")
        /\ node' = [m \in DOMAIN node \cup {child} |->
                      IF m = n THEN after
                      ELSE IF m = child THEN Deinflection(this.term, this.rules, "")
                      ELSE node[m]]
        /\ fulfilled' = with([fulfilled EXCEPT ![n] = @ \cup {0}], {})
        /\ promise' = with([promise EXCEPT ![n] =
                               PromiseAll(@, fulfilled'[n], Promises(n), after.children)],
                           Pending)
        /\ UNCHANGED <<reasons, status, table, joined, result, error>>

\* A fault C30 excludes: the callback assigns the children array instead of
\* pushing to it, so the children that settled before the node's own definer
\* call are lost.
ResolveAssignsChildren(n, definitions) ==
    LET this == node[n]
        child == Append(n, 0)
        after == [this EXCEPT
                    !.definitions = Validated(this.rules, definitions, n = Root),
                    !.children = <<child>>]
    IN  /\ status \in {"pending", "rejected"}
        /\ lookup[n] = "pending"
        /\ Answers(this.term, Resolves(definitions))
        /\ definer' = Answered(this.term, Resolves(definitions))
        /\ lookup' = [lookup EXCEPT ![n] = "fulfilled"]
        /\ node' = [m \in DOMAIN node \cup {child} |->
                      IF m = n THEN after
                      ELSE IF m = child THEN Deinflection(this.term, this.rules, "")
                      ELSE node[m]]
        /\ fulfilled' = [fulfilled EXCEPT ![n] = @ \cup {0}]
        /\ promise' = [promise EXCEPT ![n] =
                          PromiseAll(@, fulfilled'[n], Promises(n), after.children)]
        /\ UNCHANGED <<reasons, status, table, joined, result, error>>

\* A fault C28 excludes: the child that stands for the node itself is pushed
\* only when validate accepted a definition.
ResolveStopIfAccepted(n, definitions) ==
    LET this == node[n]
        child == Append(n, 0)
        accepted == Validated(this.rules, definitions, n = Root)
        after == [this EXCEPT
                    !.definitions = accepted,
                    !.children = IF Len(accepted) > 0 THEN Append(@, child) ELSE @]
    IN  /\ status \in {"pending", "rejected"}
        /\ lookup[n] = "pending"
        /\ Answers(this.term, Resolves(definitions))
        /\ definer' = Answered(this.term, Resolves(definitions))
        /\ lookup' = [lookup EXCEPT ![n] = "fulfilled"]
        /\ node' = [m \in DOMAIN node \cup (IF Len(accepted) > 0 THEN {child} ELSE {}) |->
                      IF m = n THEN after
                      ELSE IF m = child THEN Deinflection(this.term, this.rules, "")
                      ELSE node[m]]
        /\ fulfilled' = [fulfilled EXCEPT ![n] = @ \cup {0}]
        /\ promise' = [promise EXCEPT ![n] =
                          PromiseAll(@, fulfilled'[n], Promises(n), after.children)]
        /\ UNCHANGED <<reasons, status, table, joined, result, error>>

\* The promise of definer(node.term) resolves: the callback of validate
\* stores the definitions, the next callback pushes the child that stands
\* for the node itself.
Resolve(n, definitions) ==
    LET this == node[n]
        child == Append(n, 0)
        after == [this EXCEPT
                    !.definitions = Validated(this.rules, definitions, n = Root),
                    !.children = Append(@, child)]
    IN  /\ status \in {"pending", "rejected"}
        /\ lookup[n] = "pending"
        /\ Answers(this.term, Resolves(definitions))
        /\ definer' = Answered(this.term, Resolves(definitions))
        /\ lookup' = [lookup EXCEPT ![n] = "fulfilled"]
        /\ node' = [m \in DOMAIN node \cup {child} |->
                      IF m = n THEN after
                      ELSE IF m = child THEN Deinflection(this.term, this.rules, "")
                      ELSE node[m]]
        /\ fulfilled' = [fulfilled EXCEPT ![n] = @ \cup {0}]
        /\ promise' = [promise EXCEPT ![n] =
                          PromiseAll(@, fulfilled'[n], Promises(n), after.children)]
        /\ UNCHANGED <<reasons, status, table, joined, result, error>>

\* A rejected definer call as it would be if a catch handled it as a call that
\* found nothing (a fault C10 excludes).
RejectIsolated(n) ==
    LET this == node[n]
        child == Append(n, 0)
        children == Append(this.children, child)
    IN  /\ status \in {"pending", "rejected"}
        /\ lookup[n] = "pending"
        /\ Answers(this.term, Rejects)
        /\ definer' = Answered(this.term, Rejects)
        /\ lookup' = [lookup EXCEPT ![n] = "rejected"]
        /\ node' = [m \in DOMAIN node \cup {child} |->
                      IF m = n THEN [this EXCEPT !.children = children]
                      ELSE IF m = child THEN Deinflection(this.term, this.rules, "")
                      ELSE node[m]]
        /\ fulfilled' = [fulfilled EXCEPT ![n] = @ \cup {0}]
        /\ promise' = [promise EXCEPT ![n] =
                          PromiseAll(@, fulfilled'[n], Promises(n), children)]
        /\ UNCHANGED <<reasons, status, table, joined, result, error>>

\* The promise of definer(node.term) rejects: no callback of the node runs,
\* and its Promise.all rejects.
Reject(n) ==
    /\ status \in {"pending", "rejected"}
    /\ lookup[n] = "pending"
    /\ Answers(node[n].term, Rejects)
    /\ definer' = Answered(node[n].term, Rejects)
    /\ lookup' = [lookup EXCEPT ![n] = "rejected"]
    /\ promise' = [promise EXCEPT ![n] = RejectAll(@, DefinerError(node[n].term))]
    /\ UNCHANGED <<reasons, status, table, node, fulfilled, joined, result, error>>

\* The promise of child.deinflect() is fulfilled: the parent's callback
\* pushes the child if it reported valid.
Join(c) ==
    LET p == Parent(c)
        children == IF promise[c].value THEN Append(node[p].children, c)
                    ELSE node[p].children
    IN  /\ status \in {"pending", "rejected"}
        /\ c \in Explored /\ c # Root /\ c \notin joined
        /\ promise[c].state = "fulfilled"
        /\ joined' = joined \cup {c}
        /\ node' = [node EXCEPT ![p].children = children]
        /\ fulfilled' = [fulfilled EXCEPT ![p] = @ \cup {Last(c)}]
        /\ promise' = [promise EXCEPT ![p] =
                          PromiseAll(@, fulfilled'[p], Promises(p), children)]
        /\ UNCHANGED <<reasons, status, table, definer, lookup, result, error>>

\* A fault C11 excludes: the parent takes the rejected promise of a child as
\* an exploration that found nothing and goes on.
FailIgnored(c) ==
    /\ status \in {"pending", "rejected"}
    /\ c \in Explored /\ c # Root /\ c \notin joined
    /\ promise[c].state = "rejected"
    /\ joined' = joined \cup {c}
    /\ fulfilled' = [fulfilled EXCEPT ![Parent(c)] = @ \cup {Last(c)}]
    /\ promise' = [promise EXCEPT ![Parent(c)] =
                      PromiseAll(@, fulfilled'[Parent(c)], Promises(Parent(c)),
                                 node[Parent(c)].children)]
    /\ UNCHANGED <<reasons, status, table, node, definer, lookup, result, error>>

\* The promise of child.deinflect() is rejected: the parent's callback is
\* skipped and the parent's Promise.all rejects with the same error.
Fail(c) ==
    /\ status \in {"pending", "rejected"}
    /\ c \in Explored /\ c # Root /\ c \notin joined
    /\ promise[c].state = "rejected"
    /\ joined' = joined \cup {c}
    /\ promise' = [promise EXCEPT ![Parent(c)] = RejectAll(@, promise[c].value)]
    /\ UNCHANGED <<reasons, status, table, node, definer, lookup, fulfilled,
                   result, error>>

\* A fault C15 excludes: the Deinflector keeps the root in a field of its
\* own, so the callback gathers the tree of the call that was started last.
FinishLatest ==
    LET latest == IF other # Unused /\ other.self = 1 /\ other.call.status # "idle"
                    THEN other.call.node ELSE node
    IN  /\ status = "pending"
        /\ promise[Root].state = "fulfilled"
        /\ status' = "resolved"
        /\ result' = IF promise[Root].value /\ Len(latest[Root].children) > 0
                       THEN Gather(latest, Root) ELSE <<>>
        /\ UNCHANGED <<reasons, table, node, definer, lookup, fulfilled, promise,
                       joined, error>>

\* The callback of Deinflector.deinflect: success ? node.gather() : [].
Finish ==
    /\ status = "pending"
    /\ promise[Root].state = "fulfilled"
    /\ status' = "resolved"
    /\ result' = IF promise[Root].value THEN Gather(node, Root) ELSE <<>>
    /\ UNCHANGED <<reasons, table, node, definer, lookup, fulfilled, promise,
                   joined, error>>

\* The root's promise is rejected: so is the promise deinflect returned.
Abort ==
    /\ status = "pending"
    /\ promise[Root].state = "rejected"
    /\ status' = "rejected"
    /\ error' = promise[Root].value
    /\ UNCHANGED <<reasons, table, node, definer, lookup, fulfilled, promise,
                   joined, result>>

----------------------------------------------------------------------------
(* Two calls of deinflect on one Deinflector.  The variables of a call are  *)
(* those of the call whose callbacks run; the other call waits in 'other'   *)
(* and the two change places whenever the event loop turns from one to the  *)
(* other.                                                                   *)

\* the call in focus, as a record
Call ==
    [status |-> status, table |-> table, node |-> node, definer |-> definer,
     lookup |-> lookup, fulfilled |-> fulfilled, promise |-> promise,
     joined |-> joined, result |-> result, error |-> error]

\* a call that was not made yet
IdleCall ==
    [status |-> "idle", table |-> <<>>, node |-> EmptyMap, definer |-> EmptyMap,
     lookup |-> EmptyMap, fulfilled |-> EmptyMap, promise |-> EmptyMap,
     joined |-> {}, result |-> <<>>, error |-> Undefined]

\* The event loop turns to the other call: to make it, or to run a callback
\* of it.  The call made first is call 1; 'overlapped' remembers that the
\* loop left a call with work outstanding for another with work outstanding.
Switch ==
    /\ other # Unused
    /\ status # "idle"
    /\ status' = other.call.status
    /\ table' = other.call.table
    /\ node' = other.call.node
    /\ definer' = other.call.definer
    /\ lookup' = other.call.lookup
    /\ fulfilled' = other.call.fulfilled
    /\ promise' = other.call.promise
    /\ joined' = other.call.joined
    /\ result' = other.call.result
    /\ error' = other.call.error
    /\ other' = [self |-> 3 - other.self, call |-> Call,
                 overlapped |-> other.overlapped
                                  \/ (status = "pending" /\ other.call.status = "pending")]
    /\ UNCHANGED <<reasons, coreVars>>

\* the terms, tables and definer answers of the two calls
PairTerms == {<<"ta">>, Stem \o <<"ta">>}

PairTables == {<<>>, << [name |-> "past", variants |-> <<VPast>>] >>}

PairResults == {<<>>, <<D1>>}

InitPair ==
    /\ reasons = <<>>
    /\ status = IdleCall.status
    /\ table = IdleCall.table
    /\ node = IdleCall.node
    /\ definer = IdleCall.definer
    /\ lookup = IdleCall.lookup
    /\ fulfilled = IdleCall.fulfilled
    /\ promise = IdleCall.promise
    /\ joined = IdleCall.joined
    /\ result = IdleCall.result
    /\ error = IdleCall.error
    /\ de = Unused
    /\ qp = Unused
    /\ other = [self |-> 1, call |-> IdleCall, overlapped |-> FALSE]
    /\ dp = Unused /\ pt = Unused /\ mh = Unused /\ ed = Unused

NextPair ==
    \/ \E tbl \in PairTables : SetReasons(tbl) /\ UNCHANGED <<other, coreVars>>
    \/ \E term \in PairTerms : Deinflect(term, {}) /\ UNCHANGED <<other, coreVars>>
    \/ \E n \in Explored : \E definitions \in PairResults :
          Resolve(n, definitions) /\ UNCHANGED <<other, coreVars>>
    \/ \E n \in Explored : Reject(n) /\ UNCHANGED <<other, coreVars>>
    \/ \E c \in Explored : Join(c) /\ UNCHANGED <<other, coreVars>>
    \/ \E c \in Explored : Fail(c) /\ UNCHANGED <<other, coreVars>>
    \/ Finish /\ UNCHANGED <<other, coreVars>>
    \/ Abort /\ UNCHANGED <<other, coreVars>>
    \/ Switch

SpecPair == InitPair /\ [][NextPair]_vars

----------------------------------------------------------------------------
(* One call of deinflect. *)

Next ==
    \/ \E tbl \in Tables : SetReasons(tbl) /\ UNCHANGED <<other, coreVars>>
    \/ \E term \in Terms :
          \E throwing \in {{}} \cup {{r.term} : r \in Tree(term)} :
             Deinflect(term, throwing) /\ UNCHANGED <<other, coreVars>>
    \/ \E n \in Explored : \E definitions \in DefinerResults :
          Resolve(n, definitions) /\ UNCHANGED <<other, coreVars>>
    \/ \E n \in Explored : Reject(n) /\ UNCHANGED <<other, coreVars>>
    \/ \E c \in Explored : Join(c) /\ UNCHANGED <<other, coreVars>>
    \/ \E c \in Explored : Fail(c) /\ UNCHANGED <<other, coreVars>>
    \/ Finish /\ UNCHANGED <<other, coreVars>>
    \/ Abort /\ UNCHANGED <<other, coreVars>>

Spec == Init /\ [][Next]_vars

----------------------------------------------------------------------------
(* Vocabulary of the properties. *)

\* the term deinflect was called with
SurfaceTerm == node[Root].term

\* the list the definer returned for a term it resolved
Returned(term) == definer[term].definitions

\* node c is an entry of the 'children' array of its parent
Retained(c) == \E k \in 1..Len(node[Parent(c)].children) : node[Parent(c)].children[k] = c

\* node m is reached from the root through 'children' arrays
InTree(m) == \A k \in 1..Len(m) : Retained(SubSeq(m, 1, k))

\* the leaves gather reaches
Leaves == {m \in DOMAIN node : InTree(m) /\ Len(node[m].children) = 0}

\* node m is c or lies below c
Below(c, m) == Len(c) <= Len(m) /\ SubSeq(m, 1, Len(c)) = c

\* c or a node below it accepted a definition
SubtreeAccepted(c) == \E m \in DOMAIN node : Below(c, m) /\ Len(node[m].definitions) > 0

\* The reasons applied to the surface term to reach node m, first one first.
AppliedReasons(m) ==
    LET steps == SelectSeq(m, LAMBDA i : i # 0)
    IN  [k \in 1..Len(steps) |-> Pairs(table)[steps[k]].reason]

Reverse(s) == [k \in 1..Len(s) |-> s[Len(s) + 1 - k]]

----------------------------------------------------------------------------
(* Properties. *)

\* C1: when the definer returns the empty list for every term, deinflect
\* resolves to the empty list.
C1_NoDefinitionsNoPaths ==
    (status = "resolved" /\ \A t \in DOMAIN definer : definer[t] = Resolves(<<>>))
        => result = <<>>

\* C2: rule table {past: [ta -> ru, rulesIn {v1}, rulesOut {v1}]}, term
\* shoku-be-ta, one definition tagged {v1} for shoku-be-ru and none for
\* shoku-be-ta: the result is the single path with root shoku-be-ru, reasons
\* [past] and rules {v1}.
C2_PastExample ==
    ( /\ status = "resolved"
      /\ table = <<[name |-> "past", variants |-> <<VPast>>]>>
      /\ SurfaceTerm = Stem \o <<"ta">>
      /\ definer[Stem \o <<"ta">>] = Resolves(<<>>)
      /\ definer[Stem \o <<"ru">>] = Resolves(<<D1>>) )
        => /\ Len(result) = 1
           /\ result[1].root = Stem \o <<"ru">>
           /\ result[1].reasons = <<"past">>
           /\ result[1].rules = <<"v1">>

\* C3: with an empty rule table deinflect returns at most one path, with the
\* term as root and no reasons, and returns it only if the definer returned
\* at least one definition for the term.
C3_NoRuleIdempotence ==
    (status = "resolved" /\ table = <<>>)
        => /\ Len(result) <= 1
           /\ \A i \in 1..Len(result) :
                 result[i].root = SurfaceTerm /\ result[i].reasons = <<>>
           /\ Len(result) = 1 => Len(Returned(SurfaceTerm)) >= 1

\* C4: a candidate child for which neither it nor any node below it accepted
\* a definition is not kept in the tree the result is gathered from, and no
\* returned path has its term as root with its chain of reasons.
C4_PruningLaw ==
    status = "resolved" =>
        \A c \in Explored \ {Root} :
            ~SubtreeAccepted(c) =>
                /\ ~Retained(c)
                /\ ~\E i \in 1..Len(result) :
                       /\ result[i].root = node[c].term
                       /\ result[i].reasons = Reverse(AppliedReasons(c))

\* C5: the path of a leaf reached by applying the reasons r1, ..., rk in that
\* order carries the reasons rk, ..., r1; the returned paths are those of the
\* leaves of the tree, one each.
C5_ReasonsOrderLaw ==
    status = "resolved" =>
        /\ Len(result) = Cardinality(Leaves)
        /\ \A m \in Leaves : \E i \in 1..Len(result) :
              /\ result[i].root = node[m].term
              /\ result[i].reasons = Reverse(AppliedReasons(m))
        /\ \A i \in 1..Len(result) : \E m \in Leaves :
              /\ result[i].root = node[m].term
              /\ result[i].reasons = Reverse(AppliedReasons(m))

\* a path through two different reasons was returned
C5_Witness ==
    /\ status = "resolved"
    /\ \E i \in 1..Len(result) :
          /\ Len(result[i].reasons) = 2
          /\ result[i].reasons[1] # result[i].reasons[2]

\* C6: every definition stored on a node other than the root carries a rule
\* tag that is one of the node's rules; the root stores every definition the
\* definer returned for the surface term.
C6_RuleAdmissibility ==
    /\ \A n \in DOMAIN node \ {Root} :
          \A k \in 1..Len(node[n].definitions) :
             \E tag \in Range(node[n].definitions[k].rules) :
                Includes(node[n].rules, tag)
    /\ (status # "idle" /\ lookup[Root] = "fulfilled")
          => node[Root].definitions = Returned(SurfaceTerm)

\* a non-root node dropped one of the definitions it was given and kept
\* another, and the root kept a definition none of whose tags it holds
C6_Witness ==
    /\ status = "resolved"
    /\ \E n \in Explored \ {Root} :
          /\ Len(node[n].definitions) > 0
          /\ \E k \in 1..Len(Returned(node[n].term)) :
                \A j \in 1..Len(node[n].definitions) :
                   node[n].definitions[j] # Returned(node[n].term)[k]
    /\ Len(node[Root].definitions) > 0

\* C7: every retained child built from a node by a variant v: the node's term
\* ends with v.kanaIn, the child's term is the node's term with that suffix
\* replaced by v.kanaOut (what precedes the suffix is kept) and is not
\* empty, the child's rules are v.rulesOut and its reason is v's reason.
C7_SuffixPrecondition ==
    status # "idle" =>
        \A c \in Explored \ {Root} :
            Retained(c) =>
                LET pair == Pairs(table)[Last(c)]
                    v == pair.variant
                    term == node[Parent(c)].term
                IN  /\ EndsWith(term, v.kanaIn)
                    /\ node[c].term = SubSeq(term, 1, Len(term) - Len(v.kanaIn)) \o v.kanaOut
                    /\ Len(node[c].term) > 0
                    /\ node[c].rules = v.rulesOut
                    /\ node[c].reason = pair.reason

\* C8: no call recurses without bound, whatever the rule table.
C8_TerminationGuard == status # "overflow"

\* C9: in the final tree the children a node built from the rule table stand
\* in rule-table iteration order, whatever order the definer calls resolved in.
C9_ChildrenInTableOrder ==
    status = "resolved" =>
        \A n \in Explored :
            \A j, k \in 1..Len(node[n].children) :
                (j < k /\ Last(node[n].children[j]) # 0 /\ Last(node[n].children[k]) # 0)
                    => Last(node[n].children[j]) < Last(node[n].children[k])

\* every definer call of the tree has settled and every parent has observed
\* the promise of every child it built
Quiescent ==
    /\ \A n \in Explored : lookup[n] # "pending"
    /\ \A n \in Explored \ {Root} : promise[n].state # "pending" => n \in joined

\* C10: when the definer rejects or throws for a term of the search, at the
\* root or below, the call fails with the error of such a definer call and no
\* path list is delivered.
C10_DefinerFailureIsFatal ==
    /\ (\E n \in Explored : lookup[n] = "rejected") => status # "resolved"
    /\ (\E t \in DOMAIN definer : definer[t] = Throws) => status \in {"thrown", "overflow"}
    /\ status # "resolved" => result = <<>>
    /\ status = "rejected" =>
          \E n \in Explored : lookup[n] = "rejected" /\ error = DefinerError(node[n].term)
    /\ status = "thrown" =>
          \E t \in DOMAIN definer : definer[t] = Throws /\ error = DefinerError(t)
    /\ (status \in {"pending", "rejected"} /\ Quiescent
          /\ \E n \in Explored : lookup[n] = "rejected")
          => promise[Root].state = "rejected"

\* the call failed with the error of a definer call two rule applications
\* below the surface term, after the surface term's own lookup succeeded
C10_Witness ==
    /\ status = "rejected"
    /\ lookup[Root] = "fulfilled"
    /\ \E n \in Explored :
          /\ Len(n) = 2
          /\ lookup[n] = "rejected"
          /\ error = DefinerError(node[n].term)

\* the nodes on the way from the root to n, n included
Ancestors(n) == {SubSeq(n, 1, k) : k \in 0..Len(n)}

\* C11 as the specification words it: a definer failure stays inside the
\* node that made the call, whose exploration ends as one that received no
\* definitions, and the call does not fail.
C11_FailureIsConfined ==
    /\ \A n \in Explored : lookup[n] = "rejected" => promise[n].state # "rejected"
    /\ status \notin {"rejected", "thrown"}

\* C11: a definer rejection is not confined to its node. The node records
\* no definitions and no child of its own and its promise is rejected with
\* the definer's error; a parent that observes a rejected child is rejected
\* with it, whatever its other children did; a promise is rejected only by
\* the node's own lookup or by an observed child; once every lookup has
\* settled and every child has been observed, every ancestor of the failed
\* node up to the root is rejected.
C11_FailureReachesEveryAncestor ==
    /\ \A n \in Explored : lookup[n] = "rejected" =>
          /\ promise[n].state = "rejected"
          /\ node[n].definitions = <<>>
          /\ Append(n, 0) \notin DOMAIN node
    /\ \A c \in joined : promise[c].state = "rejected" =>
          promise[Parent(c)].state = "rejected"
    /\ \A n \in Explored : promise[n].state = "rejected" =>
          \/ lookup[n] = "rejected" /\ promise[n].value = DefinerError(node[n].term)
          \/ \E c \in Candidates(n) \cap joined :
                promise[c] = promise[n]
    /\ (status \in {"pending", "rejected"} /\ Quiescent) =>
          \A n \in Explored : lookup[n] = "rejected" =>
             \A a \in Ancestors(n) : promise[a].state = "rejected"

\* the call failed on one child of the surface term while the lookup of the
\* surface term and the whole exploration of a sibling succeeded
C11_Witness ==
    /\ status = "rejected"
    /\ lookup[Root] = "fulfilled"
    /\ \E n, m \in Explored :
          /\ Len(n) = 1 /\ Len(m) = 1 /\ n # m
          /\ lookup[n] = "rejected"
          /\ error = DefinerError(node[n].term)
          /\ promise[m].state = "fulfilled"
          /\ m \in joined

\* C12: a path list is delivered only by a resolved call, and a call
\* resolves only when every definer call of its tree has resolved, every
\* node holds the definitions validated from its answer and its own child,
\* and every parent has observed the fulfilled promise of every child it
\* built; the promise of a node fulfils only under the same condition on its
\* own lookup and its own children.
C12_AllOrNothing ==
    /\ status # "resolved" => result = <<>>
    /\ status = "resolved" =>
          \A n \in Explored :
             /\ lookup[n] = "fulfilled"
             /\ promise[n].state = "fulfilled"
             /\ n # Root => n \in joined
             /\ node[n].definitions =
                   Validated(node[n].rules, Returned(node[n].term), n = Root)
             /\ \E k \in 1..Len(node[n].children) : node[n].children[k] = Append(n, 0)
    /\ \A n \in Explored : promise[n].state = "fulfilled" =>
          /\ lookup[n] = "fulfilled"
          /\ \A c \in Candidates(n) : c \in joined /\ promise[c].state = "fulfilled"

\* a call resolved with its paths after exploring a node two rule
\* applications below the surface term
C12_Witness ==
    /\ status = "resolved"
    /\ result # <<>>
    /\ \E n \in Explored : Len(n) = 2

\* C13: the exploration of a node reports viable = true exactly when the
\* node or a node of its subtree accepted a definition, and the call
\* delivers paths only when the root is viable in this sense.
C13_ViableIffAccepted ==
    /\ \A n \in Explored : promise[n].state = "fulfilled" =>
          (promise[n].value <=> SubtreeAccepted(n))
    /\ (status = "resolved" /\ result # <<>>) => SubtreeAccepted(Root)

\* C14: every node of the tree has a non-empty term, the root included.
C14_NonEmptyTerms == \A n \in DOMAIN node : Len(node[n].term) > 0

\* The paths a call returns when it runs alone: one for every object the
\* search explores under the table tbl, with the definitions validated from
\* the definer's answers on the way from that object up to the surface term.
AlonePaths(term, tbl, answers) ==
    LET tree == Explore(Root, term, <<>>, "", TRUE, tbl, {})
        at(n) == CHOOSE r \in tree : r.id = n
        accepted(n) == Validated(at(n).rules, answers[at(n).term].definitions, n = Root)
        up(n) == [k \in 1..(Len(n) + 1) |-> SubSeq(n, 1, Len(n) + 1 - k)]
        reasonsUp(n) == [k \in 1..Len(n) |-> at(up(n)[k]).reason]
    IN  { [root |-> r.term, rules |-> r.rules,
           definitions |-> Flatten([k \in 1..(Len(r.id) + 1) |-> accepted(up(r.id)[k])]),
           reasons |-> reasonsUp(r.id),
           source |-> term] : r \in tree }

\* the paths of a resolved call are those it returns when it runs alone
AsAlone(call) ==
    LET term == call.node[Root].term
    IN  call.status = "resolved" =>
          /\ Range(call.result) = AlonePaths(term, call.table, call.definer)
          /\ Len(call.result) = Cardinality(DOMAIN call.lookup)

\* C15: of two calls in flight on one Deinflector, under every interleaving
\* of their callbacks and with the rule table replaced between them, each
\* returns the paths it returns when it runs alone with the table held when
\* it was made; the tree of the call that waits is the tree it had when the
\* event loop left it.
C15_CallsAreIndependent ==
    /\ AsAlone(Call)
    /\ other # Unused => AsAlone(other.call)

\* both calls resolved with several paths each, for different terms and
\* under different rule tables, after the event loop went from one to the
\* other while both had definer calls outstanding
C15_Witness ==
    /\ other # Unused
    /\ other.overlapped
    /\ status = "resolved" /\ other.call.status = "resolved"
    /\ Len(result) > 1 /\ Len(other.call.result) > 0
    /\ table # other.call.table
    /\ node[Root].term # other.call.node[Root].term

----------------------------------------------------------------------------
(* DynamicProperty of ext/js/core.js: a value with a stack of overrides.    *)
(* dp holds the fields _value, _defaultValue and _overrides, the number of  *)
(* tokens generateId has issued, and, of the last operation: its name, what *)
(* it returned, the value before it, and the events it triggered.          *)

\* the overrides a property holds at most
MaxOverrides == 3

\* the values assigned and the priorities given
Values == {"a", "b"}

Priorities == {0, 1}

\* the tokens passed to clearOverride: issued ones and one never issued
Tokens == 1..(MaxOverrides + 1)

\* Array.prototype.splice(i, 0, x), i counted from 0
SpliceIn(array, i, x) ==
    SubSeq(array, 1, i) \o <<x>> \o SubSeq(array, i + 1, Len(array))

\* Array.prototype.splice(i, 1), i counted from 0
SpliceOut(array, i) ==
    SubSeq(array, 1, i) \o SubSeq(array, i + 2, Len(array))

\* EventDispatcher.trigger as a DynamicProperty calls it: the event joins
\* those of the operation under way.
Triggered(p, eventName, details) ==
    [p EXCEPT !.events = Append(@, [eventName |-> eventName, details |-> details])]

\* A fault C17 excludes: _updateValue without the test for an equal value.
UpdateValueAlways(p) ==
    LET value == IF Len(p.overrides) > 0 THEN p.overrides[1].value ELSE p.defaultValue
    IN  Triggered([p EXCEPT !.value = value], "change", [value |-> value])

\* DynamicProperty._updateValue
UpdateValue(p) ==
    LET value == IF Len(p.overrides) > 0 THEN p.overrides[1].value ELSE p.defaultValue
    IN  IF p.value = value
          THEN p
          ELSE Triggered([p EXCEPT !.value = value], "change", [value |-> value])

\* new DynamicProperty(value)
NewDynamicProperty(value) ==
    [value |-> value, defaultValue |-> value, overrides |-> <<>>, issued |-> 0,
     op |-> "new", returned |-> Undefined, previous |-> value, events |-> <<>>]

\* an operation starts: nothing triggered yet, the value is the one to
\* compare with afterwards
Entered(p) == [p EXCEPT !.previous = p.value, !.events = <<>>]

\* set defaultValue(value)
SetDefaultValue(value) ==
    LET assigned == [Entered(dp) EXCEPT !.defaultValue = value, !.op = "defaultValue",
                                        !.returned = Undefined]
    IN  /\ dp # Unused
        /\ dp' = IF Len(assigned.overrides) = 0 THEN UpdateValue(assigned) ELSE assigned
        /\ UNCHANGED <<reasons, callVars, other, pt, mh, ed, de, qp>>

\* the index at which the loop of setOverride stops, counted from 0
InsertionIndex(overrides, priority) ==
    LET stops == {i \in 0..(Len(overrides) - 1) : priority > overrides[i + 1].priority}
    IN  IF stops = {} THEN Len(overrides)
        ELSE CHOOSE i \in stops : \A j \in stops : i <= j

\* A fault C16 excludes: the loop of setOverride stops at an override of
\* the same priority too.
SetOverrideBeforeEqual(value, priority) ==
    LET stops == {i \in 0..(Len(dp.overrides) - 1) : priority >= dp.overrides[i + 1].priority}
        i == IF stops = {} THEN Len(dp.overrides)
             ELSE CHOOSE k \in stops : \A j \in stops : k <= j
        token == dp.issued + 1
        spliced == [Entered(dp) EXCEPT
                      !.overrides = SpliceIn(@, i, [value |-> value, priority |-> priority,
                                                    token |-> token]),
                      !.issued = token,
                      !.op = "setOverride",
                      !.returned = token]
    IN  /\ dp # Unused
        /\ dp.issued < MaxOverrides
        /\ dp' = IF i = 0 THEN UpdateValue(spliced) ELSE spliced
        /\ UNCHANGED <<reasons, callVars, other, pt, mh, ed, de, qp>>

\* setOverride(value, priority).  generateId gives a token no other override
\* has: the tokens are numbered in the order of issue.
SetOverride(value, priority) ==
    LET i == InsertionIndex(dp.overrides, priority)
        token == dp.issued + 1
        spliced == [Entered(dp) EXCEPT
                      !.overrides = SpliceIn(@, i, [value |-> value, priority |-> priority,
                                                    token |-> token]),
                      !.issued = token,
                      !.op = "setOverride",
                      !.returned = token]
    IN  /\ dp # Unused
        /\ dp.issued < MaxOverrides
        /\ dp' = IF i = 0 THEN UpdateValue(spliced) ELSE spliced
        /\ UNCHANGED <<reasons, callVars, other, pt, mh, ed, de, qp>>

\* clearOverride(token)
ClearOverride(token) ==
    LET found == {i \in 0..(Len(dp.overrides) - 1) : dp.overrides[i + 1].token = token}
        i == CHOOSE k \in found : \A j \in found : k <= j
        entered == [Entered(dp) EXCEPT !.op = "clearOverride"]
        spliced == [entered EXCEPT !.overrides = SpliceOut(@, i), !.returned = TRUE]
    IN  /\ dp # Unused
        /\ dp' = IF found = {} THEN [entered EXCEPT !.returned = FALSE]
                 ELSE IF i = 0 THEN UpdateValue(spliced) ELSE spliced
        /\ UNCHANGED <<reasons, callVars, other, pt, mh, ed, de, qp>>

InitDynamicProperty ==
    /\ reasons = <<>>
    /\ status = IdleCall.status
    /\ table = IdleCall.table
    /\ node = IdleCall.node
    /\ definer = IdleCall.definer
    /\ lookup = IdleCall.lookup
    /\ fulfilled = IdleCall.fulfilled
    /\ promise = IdleCall.promise
    /\ joined = IdleCall.joined
    /\ result = IdleCall.result
    /\ error = IdleCall.error
    /\ de = Unused
    /\ qp = Unused
    /\ other = Unused
    /\ dp \in {NewDynamicProperty(value) : value \in Values}
    /\ pt = Unused /\ mh = Unused /\ ed = Unused

NextDynamicProperty ==
    \/ \E value \in Values : SetDefaultValue(value)
    \/ \E value \in Values : \E priority \in Priorities : SetOverride(value, priority)
    \/ \E token \in Tokens : ClearOverride(token)

SpecDynamicProperty == InitDynamicProperty /\ [][NextDynamicProperty]_vars

\* the value the overrides and the default stand for
EffectiveValue(p) ==
    IF Len(p.overrides) = 0 THEN p.defaultValue
    ELSE LET top == {k \in 1..Len(p.overrides) :
                       \A j \in 1..Len(p.overrides) :
                          \/ p.overrides[k].priority > p.overrides[j].priority
                          \/ /\ p.overrides[k].priority = p.overrides[j].priority
                             /\ p.overrides[k].token <= p.overrides[j].token}
         IN  p.overrides[CHOOSE k \in top : TRUE].value

\* C16: the value of a DynamicProperty is that of the override of highest
\* priority, the earliest added among those of equal priority, or the
\* default value when there is no override; the overrides are held by
\* non-increasing priority.
C16_ValueIsTopOverride ==
    dp # Unused =>
       /\ \A k \in 1..(Len(dp.overrides) - 1) :
             dp.overrides[k].priority >= dp.overrides[k + 1].priority
       /\ dp.value = EffectiveValue(dp)

\* three overrides are held, the first two of the same priority and of
\* different values, a lower one behind them, and the default differs from
\* the value
C16_Witness ==
    /\ dp # Unused
    /\ Len(dp.overrides) = 3
    /\ dp.overrides[1].priority = dp.overrides[2].priority
    /\ dp.overrides[1].value # dp.overrides[2].value
    /\ dp.overrides[3].priority < dp.overrides[2].priority
    /\ dp.defaultValue # dp.value

\* C17: an operation triggers 'change' once, with the new value, when it
\* leaves the value different from what it was, and triggers nothing when it
\* leaves the value as it was.
C17_ChangeIffValueChanged ==
    dp # Unused =>
       dp.events = IF dp.value # dp.previous
                     THEN << [eventName |-> "change", details |-> [value |-> dp.value]] >>
                     ELSE <<>>

\* clearing the first override left the value to the next one, whose value
\* is another: 'change' was triggered with it
C17_Witness ==
    /\ dp # Unused
    /\ dp.op = "clearOverride"
    /\ Len(dp.overrides) > 0
    /\ dp.value # dp.previous
    /\ dp.value = dp.overrides[1].value
    /\ dp.events = << [eventName |-> "change", details |-> [value |-> dp.value]] >>

----------------------------------------------------------------------------
(* invokeMessageHandler of ext/js/core.js.  mh.invocations lists the        *)
(* invocations made, each with its arguments, what it returned, the        *)
(* promise of its handler and the messages its callback was called with.   *)

\* the invocations followed
MaxInvocations == 2

\* what handlers return or resolve with
Results == {"r1", "r2"}

\* what is thrown: an Error object, or a value that is not an object
Errors ==
    { [object |-> TRUE, name |-> "Error", message |-> "m", stack |-> "s"],
      [object |-> FALSE, value |-> "e"] }

\* the TypeError of a callback that throws
CallbackError ==
    [object |-> TRUE, name |-> "TypeError", message |-> "c", stack |-> "s"]

\* serializeError
SerializeError(err) ==
    IF err.object
      THEN [name |-> err.name, message |-> err.message, stack |-> err.stack]
      ELSE [value |-> err.value, hasValue |-> TRUE]

\* What handler(params) does.  A handler keeps to its declaration: declared
\* async, it returns a promise or throws; declared 'dynamic', it returns
\* {async, result} with async telling whether result is a promise.
Handlers ==
    {[kind |-> "returns", value |-> v] : v \in Results}
    \cup {[kind |-> "throws", error |-> e] : e \in Errors}
    \cup {[kind |-> "promise"]}

\* the values of the async property a handler of each kind is declared with
Declarations(handler) ==
    IF handler.kind = "returns" THEN {"false", "dynamic"}
    ELSE IF handler.kind = "promise" THEN {"true", "dynamic"}
    ELSE {"false", "true", "dynamic"}

\* What callbacks do when called: return, or throw.
Callbacks == {"returns", "throws"}

\* The body of invokeMessageHandler, up to its return.
Invocation(async, handler, callback) ==
    LET arguments == [async |-> async, handler |-> handler, callback |-> callback]
        caught(calls, err) ==
            \* the catch clause: callback({error: serializeError(error)})
            [arguments |-> arguments,
             calls |-> Append(calls, [error |-> SerializeError(err)]),
             promise |-> "none",
             returned |-> IF callback = "throws" THEN "throws" ELSE "false"]
    IN  IF handler.kind = "throws"
          THEN caught(<<>>, handler.error)
        ELSE IF handler.kind = "promise"
          THEN [arguments |-> arguments, calls |-> <<>>, promise |-> "pending",
                returned |-> "true"]
        ELSE IF callback = "throws"
          \* callback({result}) is inside the try block
          THEN caught(<< [result |-> handler.value] >>, CallbackError)
        ELSE [arguments |-> arguments, calls |-> << [result |-> handler.value] >>,
              promise |-> "none", returned |-> "false"]

\* invokeMessageHandler({handler, async}, params, callback)
InvokeMessageHandler(async, handler, callback) ==
    /\ mh # Unused
    /\ Len(mh.invocations) < MaxInvocations
    /\ async \in Declarations(handler)
    /\ mh' = [mh EXCEPT !.invocations = Append(@, Invocation(async, handler, callback))]
    /\ UNCHANGED <<reasons, callVars, other, dp, pt, ed, de, qp>>

\* The promise of the handler of invocation i resolves:
\* (result) => { callback({result}); }
HandlerResolves(i, value) ==
    /\ mh # Unused
    /\ i \in 1..Len(mh.invocations)
    /\ mh.invocations[i].promise = "pending"
    /\ mh' = [mh EXCEPT !.invocations[i].promise = "fulfilled",
                        !.invocations[i].calls = Append(@, [result |-> value])]
    /\ UNCHANGED <<reasons, callVars, other, dp, pt, ed, de, qp>>

\* The promise of the handler of invocation i rejects:
\* (error) => { callback({error: serializeError(error)}); }
HandlerRejects(i, err) ==
    /\ mh # Unused
    /\ i \in 1..Len(mh.invocations)
    /\ mh.invocations[i].promise = "pending"
    /\ mh' = [mh EXCEPT !.invocations[i].promise = "rejected",
                        !.invocations[i].calls = Append(@, [error |-> SerializeError(err)])]
    /\ UNCHANGED <<reasons, callVars, other, dp, pt, ed, de, qp>>

InitMessageHandler ==
    /\ reasons = <<>>
    /\ status = IdleCall.status
    /\ table = IdleCall.table
    /\ node = IdleCall.node
    /\ definer = IdleCall.definer
    /\ lookup = IdleCall.lookup
    /\ fulfilled = IdleCall.fulfilled
    /\ promise = IdleCall.promise
    /\ joined = IdleCall.joined
    /\ result = IdleCall.result
    /\ error = IdleCall.error
    /\ de = Unused
    /\ qp = Unused
    /\ other = Unused
    /\ mh = [invocations |-> <<>>]
    /\ dp = Unused /\ pt = Unused /\ ed = Unused

NextMessageHandler ==
    \/ \E handler \in Handlers : \E async \in {"false", "true", "dynamic"} :
          \E callback \in Callbacks : InvokeMessageHandler(async, handler, callback)
    \/ \E i \in 1..MaxInvocations : \E value \in Results : HandlerResolves(i, value)
    \/ \E i \in 1..MaxInvocations : \E err \in Errors : HandlerRejects(i, err)

SpecMessageHandler == InitMessageHandler /\ [][NextMessageHandler]_vars

\* C18: the callback of an invocation is called once, not at all while the
\* handler's promise is pending; with {result} when the handler returned or
\* its promise resolved, with {error} when it threw or its promise
\* rejected; and invokeMessageHandler returns true exactly when the call of
\* the callback is left to the handler's promise.
C18_CallbackExactlyOnce ==
    mh # Unused =>
       \A i \in 1..Len(mh.invocations) :
          LET inv == mh.invocations[i]
              failed == inv.arguments.handler.kind = "throws" \/ inv.promise = "rejected"
          IN  /\ Len(inv.calls) = IF inv.promise = "pending" THEN 0 ELSE 1
              /\ \A k \in 1..Len(inv.calls) :
                    DOMAIN inv.calls[k] = IF failed THEN {"error"} ELSE {"result"}
              /\ inv.returned = "true" <=> inv.promise # "none"

----------------------------------------------------------------------------
(* promiseTimeout of ext/js/core.js.  pt.promises lists the promises made,  *)
(* each with the variables of its closure (timer, resolve, reject), the     *)
(* timer the browser holds for it, the state of the promise, the number of  *)
(* times complete called a function of the promise, and two records of      *)
(* what was done to it: the first event that could settle it, and whether   *)
(* anything was called after that.                                         *)

\* the promises followed
MaxTimeouts == 2

\* the delays passed: negative, zero, positive
Delays == {-1, 0, 1}

\* no event yet
NoEvent == [by |-> "none"]

\* resolve2 / reject2 of the Promise constructor, as complete calls them:
\* a settled promise stays as it is
Settled(p, state, value) ==
    [p EXCEPT !.completions = @ + 1,
              !.state = IF p.state = "pending" THEN state ELSE @,
              !.value = IF p.state = "pending" THEN <<value>> ELSE @]

\* A fault C19 excludes: complete leaves resolve and reject in place.
CompleteKeepsCallbacks(p, callback, value) ==
    IF (IF callback = "resolve" THEN p.resolve ELSE p.reject) = "null"
      THEN p
      ELSE LET cleared == IF p.timer # "null"
                            THEN [p EXCEPT !.scheduled = FALSE, !.timer = "null"]
                            ELSE p
           IN  Settled(cleared, IF callback = "resolve" THEN "fulfilled" ELSE "rejected",
                       value)

\* complete(callback, value), callback being the variable resolve or reject
Complete(p, callback, value) ==
    IF (IF callback = "resolve" THEN p.resolve ELSE p.reject) = "null"
      THEN p
      ELSE LET cleared == IF p.timer # "null"
                            THEN [p EXCEPT !.scheduled = FALSE, !.timer = "null"]
                            ELSE p
               nulled == [cleared EXCEPT !.resolve = "null", !.reject = "null"]
           IN  Settled(nulled, IF callback = "resolve" THEN "fulfilled" ELSE "rejected",
                       value)

\* what happened to p first, and whether something happened after it
Happened(p, by, value) ==
    [p EXCEPT !.first = IF p.first = NoEvent THEN [by |-> by, value |-> <<value>>] ELSE @,
              !.late = p.first # NoEvent]

\* the promise promiseTimeout returns
NewTimeout(delay, resolveValue) ==
    IF delay <= 0
      THEN [delay |-> delay, resolveValue |-> resolveValue,
            timer |-> "null", scheduled |-> FALSE, resolve |-> "nop", reject |-> "nop",
            state |-> "fulfilled", value |-> <<resolveValue>>, completions |-> 0,
            first |-> [by |-> "creation", value |-> <<resolveValue>>], late |-> FALSE]
      ELSE [delay |-> delay, resolveValue |-> resolveValue,
            timer |-> "set", scheduled |-> TRUE, resolve |-> "function",
            reject |-> "function",
            state |-> "pending", value |-> <<>>, completions |-> 0,
            first |-> NoEvent, late |-> FALSE]

\* promiseTimeout(delay, resolveValue)
PromiseTimeout(delay, resolveValue) ==
    /\ pt # Unused
    /\ Len(pt.promises) < MaxTimeouts
    /\ pt' = [pt EXCEPT !.promises = Append(@, NewTimeout(delay, resolveValue))]
    /\ UNCHANGED <<reasons, callVars, other, dp, mh, ed, de, qp>>

\* The timer of promise i fires: timer = null; resolveWrapper(resolveValue).
TimerFires(i) ==
    /\ pt # Unused
    /\ i \in 1..Len(pt.promises)
    /\ pt.promises[i].scheduled
    /\ LET p == pt.promises[i]
            fired == [Happened(p, "timer", p.resolveValue) EXCEPT
                        !.scheduled = FALSE, !.timer = "null"]
       IN  pt' = [pt EXCEPT !.promises[i] = Complete(fired, "resolve", p.resolveValue)]
    /\ UNCHANGED <<reasons, callVars, other, dp, mh, ed, de, qp>>

\* promise.resolve(value): resolveWrapper, or the function that does
\* nothing of a promise made with delay <= 0
CallResolve(i, value) ==
    /\ pt # Unused
    /\ i \in 1..Len(pt.promises)
    /\ LET p == Happened(pt.promises[i], "resolve", value)
       IN  pt' = [pt EXCEPT !.promises[i] =
                     IF p.resolve = "nop" THEN p ELSE Complete(p, "resolve", value)]
    /\ UNCHANGED <<reasons, callVars, other, dp, mh, ed, de, qp>>

\* promise.reject(value): rejectWrapper, or the function that does nothing
CallReject(i, value) ==
    /\ pt # Unused
    /\ i \in 1..Len(pt.promises)
    /\ LET p == Happened(pt.promises[i], "reject", value)
       IN  pt' = [pt EXCEPT !.promises[i] =
                     IF p.reject = "nop" THEN p ELSE Complete(p, "reject", value)]
    /\ UNCHANGED <<reasons, callVars, other, dp, mh, ed, de, qp>>

InitPromiseTimeout ==
    /\ reasons = <<>>
    /\ status = IdleCall.status
    /\ table = IdleCall.table
    /\ node = IdleCall.node
    /\ definer = IdleCall.definer
    /\ lookup = IdleCall.lookup
    /\ fulfilled = IdleCall.fulfilled
    /\ promise = IdleCall.promise
    /\ joined = IdleCall.joined
    /\ result = IdleCall.result
    /\ error = IdleCall.error
    /\ de = Unused
    /\ qp = Unused
    /\ other = Unused
    /\ pt = [promises |-> <<>>]
    /\ dp = Unused /\ mh = Unused /\ ed = Unused

NextPromiseTimeout ==
    \/ \E delay \in Delays : \E resolveValue \in Results :
          PromiseTimeout(delay, resolveValue)
    \/ \E i \in 1..MaxTimeouts : TimerFires(i)
    \/ \E i \in 1..MaxTimeouts : \E value \in Results : CallResolve(i, value)
    \/ \E i \in 1..MaxTimeouts : \E value \in Results : CallReject(i, value)

SpecPromiseTimeout == InitPromiseTimeout /\ [][NextPromiseTimeout]_vars

\* C19: a promise made with a positive delay is pending with its timer set
\* until the first of the timer, promise.resolve and promise.reject; that
\* event settles it (the timer with resolveValue, the calls with their
\* argument), calls a function of the promise once and leaves no timer;
\* nothing that comes later calls a function of the promise or changes it.
\* A promise made with a delay of zero or less is fulfilled with
\* resolveValue from the start and stays so.
C19_SettlesExactlyOnce ==
    pt # Unused =>
       \A i \in 1..Len(pt.promises) :
          LET p == pt.promises[i]
          IN  /\ p.delay > 0 <=> p.first.by # "creation"
              /\ p.first = NoEvent =>
                    p.state = "pending" /\ p.scheduled /\ p.completions = 0
              /\ p.first # NoEvent => ~p.scheduled /\ p.timer = "null"
              /\ p.first.by = "creation" =>
                    /\ p.state = "fulfilled" /\ p.value = <<p.resolveValue>>
                    /\ p.completions = 0
              /\ p.first.by = "timer" =>
                    /\ p.state = "fulfilled" /\ p.value = <<p.resolveValue>>
                    /\ p.completions = 1
              /\ p.first.by = "resolve" =>
                    p.state = "fulfilled" /\ p.value = p.first.value /\ p.completions = 1
              /\ p.first.by = "reject" =>
                    p.state = "rejected" /\ p.value = p.first.value /\ p.completions = 1

\* a promise with a positive delay was rejected before its timer fired,
\* with a value other than resolveValue, and something was called on it
\* afterwards; another was settled by its timer
C19_Witness ==
    /\ pt # Unused
    /\ \E i, j \in 1..Len(pt.promises) :
          /\ pt.promises[i].delay > 0
          /\ pt.promises[i].first.by = "reject"
          /\ pt.promises[i].value # <<pt.promises[i].resolveValue>>
          /\ pt.promises[i].late
          /\ pt.promises[i].state = "rejected"
          /\ pt.promises[j].first.by = "timer"
          /\ pt.promises[j].late

----------------------------------------------------------------------------
(* EventDispatcher of ext/js/core.js.  ed holds _eventMap (the event names  *)
(* it has a key for, each with its array of callbacks), the call made       *)
(* last with what it returned, and a count of the registrations made and    *)
(* not yet removed, kept apart from the arrays.                            *)

\* the callbacks one event name holds at most
MaxListeners == 2

\* the event names used
EventNames == {"change", "log"}

\* the functions registered
Listeners == {"f", "g"}

\* Map.prototype.set
Set(map, key, value) ==
    [k \in DOMAIN map \cup {key} |-> IF k = key THEN value ELSE map[k]]

\* Map.prototype.delete
Delete(map, key) == [k \in DOMAIN map \ {key} |-> map[k]]

\* EventDispatcher.hasListeners
HasListeners(d, eventName) ==
    /\ eventName \in DOMAIN d.eventMap
    /\ Len(d.eventMap[eventName]) > 0

\* new EventDispatcher()
NewEventDispatcher ==
    [eventMap |-> EmptyMap,
     last |-> [op |-> "new", eventName |-> "", returned |-> Undefined,
               called |-> <<>>, removed |-> FALSE],
     registered |-> [r \in EventNames \X Listeners |-> 0]]

\* EventDispatcher.on
On(eventName, callback) ==
    LET callbacks == IF eventName \in DOMAIN ed.eventMap
                       THEN ed.eventMap[eventName] ELSE <<>>
    IN  /\ ed # Unused
        /\ Len(callbacks) < MaxListeners
        /\ ed' = [eventMap |-> Set(ed.eventMap, eventName, Append(callbacks, callback)),
                  last |-> [op |-> "on", eventName |-> eventName, returned |-> Undefined,
                            called |-> <<>>, removed |-> FALSE],
                  registered |-> [ed.registered EXCEPT ![<<eventName, callback>>] = @ + 1]]
        /\ UNCHANGED <<reasons, callVars, other, dp, pt, mh, de, qp>>

\* what off leaves of the count of registrations
Unregistered(d, eventName, callback) ==
    [d.registered EXCEPT ![<<eventName, callback>>] = IF @ > 0 THEN @ - 1 ELSE @]

\* A fault C20 excludes: off leaves the key of an array it has emptied.
OffKeepsEmptyList(eventName, callback) ==
    LET present == eventName \in DOMAIN ed.eventMap
        callbacks == ed.eventMap[eventName]
        found == {i \in 0..(Len(callbacks) - 1) : callbacks[i + 1] = callback}
        i == CHOOSE k \in found : \A j \in found : k <= j
        had == ed.registered[<<eventName, callback>>] > 0
        said(returned) == [op |-> "off", eventName |-> eventName, returned |-> returned,
                           called |-> <<>>, removed |-> had]
    IN  /\ ed # Unused
        /\ ed' = IF ~present \/ found = {}
                   THEN [ed EXCEPT !.last = said("false"),
                                   !.registered = Unregistered(ed, eventName, callback)]
                   ELSE [eventMap |-> Set(ed.eventMap, eventName, SpliceOut(callbacks, i)),
                         last |-> said("true"),
                         registered |-> Unregistered(ed, eventName, callback)]
        /\ UNCHANGED <<reasons, callVars, other, dp, pt, mh, de, qp>>

\* EventDispatcher.off
Off(eventName, callback) ==
    LET present == eventName \in DOMAIN ed.eventMap
        callbacks == ed.eventMap[eventName]
        found == {i \in 0..(Len(callbacks) - 1) : callbacks[i + 1] = callback}
        i == CHOOSE k \in found : \A j \in found : k <= j
        spliced == SpliceOut(callbacks, i)
        had == ed.registered[<<eventName, callback>>] > 0
        said(returned) == [op |-> "off", eventName |-> eventName, returned |-> returned,
                           called |-> <<>>, removed |-> had]
    IN  /\ ed # Unused
        /\ ed' = IF ~present \/ found = {}
                   THEN [ed EXCEPT !.last = said("false"),
                                   !.registered = Unregistered(ed, eventName, callback)]
                   ELSE [eventMap |-> IF Len(spliced) = 0
                                        THEN Delete(ed.eventMap, eventName)
                                        ELSE Set(ed.eventMap, eventName, spliced),
                         last |-> said("true"),
                         registered |-> Unregistered(ed, eventName, callback)]
        /\ UNCHANGED <<reasons, callVars, other, dp, pt, mh, de, qp>>

\* EventDispatcher.trigger, with callbacks that return and leave the
\* dispatcher alone: 'called' are the callbacks called, in order
Trigger(eventName) ==
    /\ ed # Unused
    /\ ed' = [ed EXCEPT !.last =
                 IF eventName \notin DOMAIN ed.eventMap
                   THEN [op |-> "trigger", eventName |-> eventName, returned |-> "false",
                         called |-> <<>>, removed |-> FALSE]
                   ELSE [op |-> "trigger", eventName |-> eventName, returned |-> "true",
                         called |-> ed.eventMap[eventName], removed |-> FALSE]]
    /\ UNCHANGED <<reasons, callVars, other, dp, pt, mh, de, qp>>

InitEventDispatcher ==
    /\ reasons = <<>>
    /\ status = IdleCall.status
    /\ table = IdleCall.table
    /\ node = IdleCall.node
    /\ definer = IdleCall.definer
    /\ lookup = IdleCall.lookup
    /\ fulfilled = IdleCall.fulfilled
    /\ promise = IdleCall.promise
    /\ joined = IdleCall.joined
    /\ result = IdleCall.result
    /\ error = IdleCall.error
    /\ de = Unused
    /\ qp = Unused
    /\ other = Unused
    /\ ed = NewEventDispatcher
    /\ dp = Unused /\ pt = Unused /\ mh = Unused

NextEventDispatcher ==
    \/ \E eventName \in EventNames : \E callback \in Listeners : On(eventName, callback)
    \/ \E eventName \in EventNames : \E callback \in Listeners : Off(eventName, callback)
    \/ \E eventName \in EventNames : Trigger(eventName)

SpecEventDispatcher == InitEventDispatcher /\ [][NextEventDispatcher]_vars

\* the times callback occurs in an array of callbacks
Occurrences(callbacks, callback) ==
    Cardinality({k \in 1..Len(callbacks) : callbacks[k] = callback})

\* C20: no event name is mapped to an empty array; the arrays hold the
\* registrations made by on and not removed by off; hasListeners(e) holds
\* exactly when a registration for e exists; trigger(e) returned true
\* exactly when it does, having called the callbacks of e; and off
\* returned true exactly when a registration of the callback for the event
\* existed, which it removed.
C20_TriggerIffRegistered ==
    ed # Unused =>
       /\ \A e \in DOMAIN ed.eventMap : Len(ed.eventMap[e]) > 0
       /\ \A e \in EventNames : \A cb \in Listeners :
             ed.registered[<<e, cb>>] =
                IF e \in DOMAIN ed.eventMap THEN Occurrences(ed.eventMap[e], cb) ELSE 0
       /\ \A e \in EventNames :
             HasListeners(ed, e) <=> \E cb \in Listeners : ed.registered[<<e, cb>>] > 0
       /\ ed.last.op = "trigger" =>
             /\ ed.last.returned = "true" <=> HasListeners(ed, ed.last.eventName)
             /\ ed.last.returned = "false" <=> ~HasListeners(ed, ed.last.eventName)
             /\ Len(ed.last.called) > 0 <=> ed.last.returned = "true"
       /\ ed.last.op = "off" =>
             /\ ed.last.returned = "true" <=> ed.last.removed
             /\ ed.last.returned = "false" <=> ~ed.last.removed

\* off removed the last registration of an event and returned true, and
\* the event has no key any more, while the other event keeps a callback
\* registered twice
C20_Witness ==
    /\ ed # Unused
    /\ ed.last.op = "off"
    /\ ed.last.returned = "true"
    /\ ed.last.eventName \notin DOMAIN ed.eventMap
    /\ \E e \in DOMAIN ed.eventMap : \E cb \in Listeners :
          Occurrences(ed.eventMap[e], cb) = 2

----------------------------------------------------------------------------
(* clone and deepEqual of ext/js/core.js.  Objects have identity: de.heap   *)
(* maps the identity of every object and array to its own properties, and   *)
(* a value is a string, null, or a reference to an object of the heap.     *)
(* de.x is the value at hand, de.copy what clone(x) returned, de.last the   *)
(* last call of deepEqual with what it returned.                           *)

\* the objects a value is built from
MaxObjects == 3

\* the identities of the objects of a value, in an order in which an object
\* refers to later ones only: the value has no cycle
ObjectIds == [k \in 1..MaxObjects |-> <<"#", <<"1", "2", "3", "4">>[k]>>]

String(value) == [type |-> "string", value |-> value]

Null == [type |-> "object", null |-> TRUE]

Ref(id) == [type |-> "object", ref |-> id]

\* the values that are not references
Primitives == {String("p"), Null}

IsObject(v) == v.type = "object" /\ "ref" \in DOMAIN v

\* the property names of objects, and the indices of arrays as far as used
Keys == <<"a", "b">>

Indices == <<"0">>

\* The objects and arrays the k-th object can be: its property values are
\* primitives or references to objects after it.
ObjectsAt(k) ==
    LET values == Primitives \cup {Ref(ObjectIds[j]) : j \in (k + 1)..MaxObjects}
        objects == UNION {[names -> values] : names \in SUBSET Range(Keys)}
        arrays == UNION {[{Indices[i] : i \in 1..n} -> values] : n \in 0..Len(Indices)}
    IN  {[array |-> FALSE, props |-> props] : props \in objects}
        \cup {[array |-> TRUE, props |-> props] : props \in arrays}

\* The values built from the k-th object on, as lists of their objects.
RECURSIVE ObjectLists(_)
ObjectLists(k) ==
    IF k > MaxObjects THEN {<<>>}
    ELSE {<<object>> \o rest : object \in ObjectsAt(k), rest \in ObjectLists(k + 1)}

\* the own property names of an object in insertion order, or the indices
\* of an array in order
KeysOf(object) ==
    LET names == IF object.array THEN Indices ELSE Keys
    IN  SelectSeq(names, LAMBDA name : name \in DOMAIN object.props)

\* The value found from v along a path of property names.
RECURSIVE Walk(_, _, _)
Walk(heap, v, path) ==
    IF path = <<>> THEN <<v>>
    ELSE IF ~IsObject(v) THEN <<>>
    ELSE IF Head(path) \notin DOMAIN heap[v.ref].props THEN <<>>
    ELSE Walk(heap, heap[v.ref].props[Head(path)], Tail(path))

\* the identity of the object clone makes for the object found along path
CopyId(path) == <<"clone">> \o path

\* cloneInternal: the clone of the value found along path.  Every object
\* met is copied anew, also one met before.
CloneInternal(v, path) == IF IsObject(v) THEN Ref(CopyId(path)) ELSE v

\* The objects cloneArray and cloneObject make for clone(x).
Clones(heap, x) ==
    LET names == Range(Keys) \cup Range(Indices)
        paths == {path \in SeqsUpTo(names, MaxObjects - 1) :
                     LET found == Walk(heap, x, path)
                     IN  found # <<>> /\ IsObject(found[1])}
        copy(path) ==
            LET object == heap[Walk(heap, x, path)[1].ref]
            IN  [array |-> object.array,
                 props |-> [name \in DOMAIN object.props |->
                              CloneInternal(object.props[name], Append(path, name))]]
    IN  [id \in {CopyId(path) : path \in paths} |->
           copy(CHOOSE path \in paths : CopyId(path) = id)]

\* what deepEqualInternal hands back: its result and the set visited1,
\* which is one Set for the whole call of deepEqual
Outcome(equal, visited) == [equal |-> equal, visited |-> visited]

\* deepEqualInternal, and in AreEqual the loops of areObjectsEqual and
\* areArraysEqual over the names still to compare.
RECURSIVE DeepEqualInternal(_, _, _, _), AreEqual(_, _, _, _, _)
DeepEqualInternal(heap, value1, value2, visited1) ==
    IF value1 = value2 THEN Outcome(TRUE, visited1)
    ELSE IF value1.type # value2.type THEN Outcome(FALSE, visited1)
    ELSE IF value1.type # "object" THEN Outcome(FALSE, visited1)
    ELSE IF ~IsObject(value1) \/ ~IsObject(value2) THEN Outcome(FALSE, visited1)
    ELSE IF heap[value1.ref].array # heap[value2.ref].array THEN Outcome(FALSE, visited1)
    ELSE IF value1.ref \in visited1 THEN Outcome(FALSE, visited1)
    ELSE LET object1 == heap[value1.ref]
             object2 == heap[value2.ref]
         IN  IF Len(KeysOf(object1)) # Len(KeysOf(object2))
               THEN Outcome(FALSE, visited1 \cup {value1.ref})
               ELSE AreEqual(heap, object1, object2,
                             IF object1.array THEN KeysOf(object1) ELSE KeysOf(object2),
                             visited1 \cup {value1.ref})

AreEqual(heap, object1, object2, names, visited1) ==
    IF names = <<>> THEN Outcome(TRUE, visited1)
    ELSE IF Head(names) \notin DOMAIN object1.props THEN Outcome(FALSE, visited1)
    ELSE LET first == DeepEqualInternal(heap, object1.props[Head(names)],
                                        object2.props[Head(names)], visited1)
         IN  IF ~first.equal THEN first
             ELSE AreEqual(heap, object1, object2, Tail(names), first.visited)

\* deepEqual(value1, value2)
DeepEqual(heap, value1, value2) ==
    IF value1 = value2 THEN TRUE
    ELSE IF value1.type # value2.type THEN FALSE
    ELSE IF value1.type # "object" THEN FALSE
    ELSE DeepEqualInternal(heap, value1, value2, {}).equal

\* x is the first object of a value without cycles
InitDeepEqual ==
    /\ reasons = <<>>
    /\ status = IdleCall.status
    /\ table = IdleCall.table
    /\ node = IdleCall.node
    /\ definer = IdleCall.definer
    /\ lookup = IdleCall.lookup
    /\ fulfilled = IdleCall.fulfilled
    /\ promise = IdleCall.promise
    /\ joined = IdleCall.joined
    /\ result = IdleCall.result
    /\ error = IdleCall.error
    /\ other = Unused
    /\ dp = Unused /\ pt = Unused /\ mh = Unused /\ ed = Unused
    /\ qp = Unused
    /\ \E objects \in ObjectLists(1) :
          de = [heap |-> [id \in Range(ObjectIds) |->
                            objects[CHOOSE k \in 1..MaxObjects : ObjectIds[k] = id]],
                x |-> Ref(ObjectIds[1]), copy |-> <<>>,
                last |-> [op |-> "new"]]

\* copy = clone(x)
CloneValue ==
    /\ de # Unused
    /\ de.copy = <<>>
    /\ LET made == Clones(de.heap, de.x)
       IN  de' = [de EXCEPT
                    !.heap = [id \in DOMAIN de.heap \cup DOMAIN made |->
                                IF id \in DOMAIN made THEN made[id] ELSE de.heap[id]],
                    !.copy = <<CloneInternal(de.x, <<>>)>>,
                    !.last = [op |-> "clone"]]
    /\ UNCHANGED <<reasons, callVars, other, dp, pt, mh, ed, qp>>

\* deepEqual(value1, value2) for two of the values at hand
CallDeepEqual(value1, value2) ==
    /\ de # Unused
    /\ de' = [de EXCEPT !.last = [op |-> "deepEqual", value1 |-> value1,
                                   value2 |-> value2,
                                   returned |-> DeepEqual(de.heap, value1, value2)]]
    /\ UNCHANGED <<reasons, callVars, other, dp, pt, mh, ed, qp>>

\* the values at hand: x, its clone, and the primitives
AtHand == {de.x} \cup Range(de.copy) \cup Primitives

NextDeepEqual ==
    \/ CloneValue
    \/ \E value1, value2 \in AtHand : CallDeepEqual(value1, value2)

SpecDeepEqual == InitDeepEqual /\ [][NextDeepEqual]_vars

\* Two values are structurally equal: the same primitive, or both arrays or
\* both objects with the same property names and structurally equal values
\* under each name.
RECURSIVE StructurallyEqual(_, _, _)
StructurallyEqual(heap, value1, value2) ==
    IF ~IsObject(value1) \/ ~IsObject(value2) THEN value1 = value2
    ELSE LET object1 == heap[value1.ref]
             object2 == heap[value2.ref]
         IN  /\ object1.array = object2.array
             /\ DOMAIN object1.props = DOMAIN object2.props
             /\ \A name \in DOMAIN object1.props :
                   StructurallyEqual(heap, object1.props[name], object2.props[name])

\* C21: deepEqual returns true for structurally equal values without
\* cycles, also when an object is referenced from several places, and
\* returns the same with its arguments exchanged; x and clone(x) are equal
\* in both directions.
C21_DeepEqualIsStructural ==
    (de # Unused /\ de.last.op = "deepEqual") =>
       /\ StructurallyEqual(de.heap, de.last.value1, de.last.value2) => de.last.returned
       /\ de.last.returned = DeepEqual(de.heap, de.last.value2, de.last.value1)
       /\ de.copy # <<>> =>
             /\ DeepEqual(de.heap, de.x, de.copy[1])
             /\ DeepEqual(de.heap, de.copy[1], de.x)

----------------------------------------------------------------------------
(* Properties of the paths of a resolved call. *)

\* The leaves of the tree below and including n, in the order gather visits
\* them: depth first, the children of a node from its k-th on.
RECURSIVE LeafList(_, _), LeavesFrom(_, _, _)
LeafList(nd, n) ==
    IF Len(nd[n].children) = 0 THEN <<n>> ELSE LeavesFrom(nd, n, 1)

LeavesFrom(nd, n, k) ==
    IF k > Len(nd[n].children) THEN <<>>
    ELSE LeafList(nd, nd[n].children[k]) \o LeavesFrom(nd, n, k + 1)

\* the call resolved with the paths gather made of its tree
Gathered == status = "resolved" /\ promise[Root].value

\* C22: gather returns one path per leaf of the tree, in the order of the
\* leaves, each with the term and the rules of its leaf as root and rules;
\* for a node without children it returns the one path made of the node's
\* term, rules and definitions, with no reasons.
C22_OnePathPerLeaf ==
    /\ Gathered =>
          LET leaves == LeafList(node, Root)
          IN  /\ Range(leaves) = Leaves
              /\ Len(leaves) = Cardinality(Leaves)
              /\ Len(result) = Len(leaves)
              /\ \A k \in 1..Len(leaves) :
                    /\ k <= Len(result)
                    /\ result[k].root = node[leaves[k]].term
                    /\ result[k].rules = node[leaves[k]].rules
    /\ \A n \in DOMAIN node : Len(node[n].children) = 0 =>
          /\ Len(Gather(node, n)) = 1
          /\ Gather(node, n)[1].root = node[n].term
          /\ Gather(node, n)[1].rules = node[n].rules
          /\ Gather(node, n)[1].definitions = node[n].definitions
          /\ Gather(node, n)[1].reasons = <<>>

\* a call resolved with the paths of three leaves, one of them three levels
\* below the surface term
C22_Witness ==
    /\ Gathered
    /\ Len(result) >= 3
    /\ \E m \in Leaves : Len(m) = 3

\* The definitions of the nodes from the parent of leaf m up to the node
\* just below the root: those of the rule-derived nodes of the path.
DefinitionsBelowRoot(m) ==
    Flatten([k \in 1..(Len(m) - 1) |-> node[SubSeq(m, 1, Len(m) - k)].definitions])

\* C23: the definitions of a returned path are those of the nodes below the
\* root on the path, nearest the leaf first; the definitions accepted at
\* the root are not in the paths that pass through a rule-derived child.
C23_DefinitionsBelowRootOnly ==
    Gathered =>
       LET leaves == LeafList(node, Root)
       IN  \A k \in 1..Len(leaves) :
              Len(leaves[k]) >= 2 =>
                 result[k].definitions = DefinitionsBelowRoot(leaves[k])

\* C24: every path of a resolved call has the term passed to deinflect as
\* its source.
C24_SourceIsSurfaceTerm ==
    status = "resolved" => \A k \in 1..Len(result) : result[k].source = SurfaceTerm

\* a path two rule applications long carries the surface term as source,
\* which is neither its root nor the term of the node between
C24_Witness ==
    /\ Gathered
    /\ \E k \in 1..Len(result) :
          /\ Len(result[k].reasons) = 2
          /\ result[k].source = SurfaceTerm
          /\ result[k].root # SurfaceTerm
          /\ \E n \in Explored : Len(n) = 1 /\ node[n].term \notin {SurfaceTerm, result[k].root}

\* the term with the suffix kanaIn replaced by kanaOut
Replaced(term, variant) ==
    SubSeq(term, 1, Len(term) - Len(variant.kanaIn)) \o variant.kanaOut

\* C25: at every explored node, a child is built and explored for the i-th
\* pair of the table exactly when the node is the entry point or shares a
\* rule with the variant's rulesIn, its term ends with the variant's kanaIn,
\* and the term with that suffix replaced is not empty.
C25_ExpandsExactlyAdmissible ==
    status \in {"pending", "resolved", "rejected"} =>
       \A n \in Explored : \A i \in 1..Len(Pairs(table)) :
          LET variant == Pairs(table)[i].variant
          IN  Append(n, i) \in Explored <=>
                 /\ n = Root \/ Range(node[n].rules) \cap Range(variant.rulesIn) # {}
                 /\ EndsWith(node[n].term, variant.kanaIn)
                 /\ Len(Replaced(node[n].term, variant)) > 0

\* C26: the definitions stored on a node other than the entry point are the
\* definitions its definer call returned whose rules share a rule with the
\* node's rules, each of them once and in the order they were returned.
C26_AcceptedOnceInDefinerOrder ==
    \A n \in Explored :
       n # Root /\ lookup[n] = "fulfilled" =>
          node[n].definitions =
             SelectSeq(definer[node[n].term].definitions,
                       LAMBDA d : Range(d.rules) \cap Range(node[n].rules) # {})

----------------------------------------------------------------------------
(* The rule table and the calls in flight. *)

\* the tree of a call is the one the table it was started with determines,
\* and so are its paths
UnderOwnTable(call) ==
    LET tree == Explore(Root, call.node[Root].term, <<>>, "", TRUE, call.table, {})
    IN  call.status \in {"pending", "resolved", "rejected"} =>
          /\ DOMAIN call.lookup = {r.id : r \in tree}
          /\ \A r \in tree :
                /\ call.node[r.id].term = r.term
                /\ call.node[r.id].rules = r.rules
                /\ call.node[r.id].reason = r.reason
          /\ AsAlone(call)

\* the call made first
FirstCall == IF other.self = 1 THEN Call ELSE other.call

\* C27: no step of a call changes the held rule table, and a setReasons made
\* while a call is outstanding changes nothing of that call: at every moment
\* the tree of each call, and its paths once it resolved, are those the
\* table held when the call was started determines.
C27_TableIsReadOnlyForACall ==
    /\ [](UnderOwnTable(Call) /\ (other # Unused => UnderOwnTable(other.call)))
    /\ [][reasons' # reasons => (Call' = Call /\ other' = other)]_vars

\* the first call resolved with several paths under a table that was
\* replaced while it was outstanding: the second call was started, under
\* another table, while the first still had definer calls pending
C27_Witness ==
    /\ other # Unused
    /\ other.overlapped
    /\ FirstCall.status = "resolved"
    /\ Len(FirstCall.result) > 1
    /\ FirstCall.table # reasons

----------------------------------------------------------------------------
(* The child that stands for the node itself. *)

\* the children of n that deinflect was never called on
StopChildren(n) ==
    {k \in 1..Len(node[n].children) : node[n].children[k] \notin Explored}

\* C28: once the promise of the entry point is fulfilled, every explored
\* node has among its children exactly one that was not explored itself; it
\* has the term and the rules of the node, an empty reason, no definitions
\* and no children, and it is there whether or not the node accepted a
\* definition.
C28_OneStopChild ==
    (status \in {"pending", "resolved"} /\ promise[Root].state = "fulfilled") =>
       \A n \in Explored :
          /\ Cardinality(StopChildren(n)) = 1
          /\ \A k \in StopChildren(n) :
                LET child == node[n].children[k]
                IN  /\ child \in DOMAIN node
                    /\ node[child] = Deinflection(node[n].term, node[n].rules, "")
                    /\ node[child].reason = ""
                    /\ node[child].children = <<>>

\* an exploration that settled with a node that accepted definitions and a
\* node, two rules below the entry point, that accepted none
C28_Witness ==
    /\ status = "resolved" /\ promise[Root].state = "fulfilled"
    /\ \E n, m \in Explored :
          /\ Len(node[n].definitions) > 0
          /\ Len(m) = 2 /\ Len(node[m].definitions) = 0
          /\ Cardinality(StopChildren(m)) = 1

----------------------------------------------------------------------------
(* Paths as derivations. *)

\* There is a choice of one variant per reason of 'steps', applied in that
\* order from 'term', that ends at the path: each step needs the term to end
\* with the variant's kanaIn and, but for the first, the variant's rulesIn to
\* share a rule with the rulesOut of the step before.
RECURSIVE Derives(_, _, _, _, _)
Derives(term, rules, first, steps, path) ==
    IF steps = <<>> THEN path.root = term /\ path.rules = rules
    ELSE \E i \in 1..Len(Pairs(table)) :
            LET variant == Pairs(table)[i].variant
            IN  /\ Pairs(table)[i].reason = Head(steps)
                /\ first \/ Range(rules) \cap Range(variant.rulesIn) # {}
                /\ EndsWith(term, variant.kanaIn)
                /\ Derives(Replaced(term, variant), variant.rulesOut, FALSE,
                           Tail(steps), path)

\* C29: every path of a resolved call is a derivation of the surface term:
\* its reasons, taken last to first, can be applied one variant each from the
\* surface term to arrive at the path's root, the path's rules being the
\* rulesOut of the last variant applied (none when there are no reasons).
C29_PathsAreDerivations ==
    status = "resolved" =>
       \A k \in 1..Len(result) :
          Derives(SurfaceTerm, <<>>, TRUE, Reverse(result[k].reasons), result[k])

----------------------------------------------------------------------------
(* The order in which the definer calls resolve. *)

\* The path of the explored object n as the term, the rule table and the
\* definer's answers determine it, whatever the order of the callbacks: the
\* definitions validated from the answers for n and for the objects above
\* it, and the reasons on the way up.
PathAt(n) ==
    LET up == [k \in 1..(Len(n) + 1) |-> SubSeq(n, 1, Len(n) + 1 - k)]
        accepted(m) == Validated(node[m].rules, Returned(node[m].term), m = Root)
    IN  [root |-> node[n].term, rules |-> node[n].rules,
         definitions |-> Flatten([k \in 1..(Len(n) + 1) |-> accepted(up[k])]),
         reasons |-> [k \in 1..Len(n) |-> node[up[k]].reason],
         source |-> SurfaceTerm]

\* how many entries of the list are the path
Times(path, list) == Cardinality({k \in 1..Len(list) : list[k] = path})

\* C30: the paths of a resolved call, counted with their multiplicity, are
\* those the term, the rule table and the definer's answers determine, one
\* for every explored object, under every order in which the definer calls
\* resolved and the explorations were joined.
C30_PathsWhateverTheOrder ==
    status = "resolved" =>
       /\ Len(result) = Cardinality(Explored)
       /\ \A n \in Explored :
             Times(PathAt(n), result) =
                Cardinality({m \in Explored : PathAt(m) = PathAt(n)})

\* a call resolved with three paths or more whose callbacks did not run in
\* the order the definer calls were issued: an exploration below the entry
\* point was joined before the entry point's own definer call resolved, and
\* the list does not begin with the path of the surface term
C30_Witness ==
    /\ status = "resolved"
    /\ Len(result) >= 3
    /\ node[Root].children[1] # Append(Root, 0)
    /\ result[1].reasons # <<>>
    /\ \E k \in 2..Len(result) : result[k].reasons = <<>>

----------------------------------------------------------------------------
(* The definer calls of one deinflect. *)

\* the candidates the rule table yields for the surface term, the entry
\* point included, whatever validate reports for any of them
Constructed == {r.id : r \in Explore(Root, SurfaceTerm, <<>>, "", TRUE, table, {})}

\* C31: in a call of deinflect there is one definer call for the entry point
\* and one for every candidate built, and none for a child that stands for
\* its node; the candidates built for a node do not depend on what the node
\* accepted: a node that accepted nothing has every candidate the table
\* yields for it, looked up like the others.
C31_OneLookupPerCandidate ==
    status \in {"pending", "resolved", "rejected"} =>
       /\ Explored = Constructed
       /\ \A n \in Explored : n = Root \/ Last(n) # 0
       /\ \A m \in DOMAIN node \ Explored : Last(m) = 0 /\ Parent(m) \in Explored
       /\ \A n \in Explored : \A i \in 1..Len(Pairs(table)) :
             (lookup[n] = "fulfilled" /\ node[n].definitions = <<>>) =>
                (Append(n, i) \in Explored <=>
                    i \in Expanded(node[n].term, node[n].rules, n = Root, table))

\* a node that accepted no definition and has a candidate, two rules below
\* the entry point, whose definer call resolved with a definition it accepted
C31_Witness ==
    /\ status = "resolved"
    /\ \E n, c \in Explored :
          /\ Len(c) = 2 /\ Parent(c) = n
          /\ lookup[n] = "fulfilled" /\ node[n].definitions = <<>>
          /\ lookup[c] = "fulfilled" /\ Len(node[c].definitions) > 0
          /\ Append(n, 0) \in DOMAIN node \ Explored

----------------------------------------------------------------------------
(* Rule tables whose variants all shorten the term.                         *)

\* a variant that removes its suffix and stays admissible after itself
VStrip == Variant(<<"ta">>, <<>>, <<"v1">>, <<"v1">>)

\* the tables of this specification: two whose variants all have a kanaOut
\* shorter than their kanaIn, one that keeps the length, one that loops
ShrinkTables ==
    { << [name |-> "strip", variants |-> <<VStrip>>] >>,
      << [name |-> "strip", variants |-> <<VStrip>>],
         [name |-> "past", variants |-> <<VPastAlt>>] >>,
      << [name |-> "past", variants |-> <<VPast>>] >>,
      << [name |-> "polite", variants |-> <<VSame>>] >> }

\* the terms: up to MaxTail times "ta", alone or after "ru"
ShrinkTerms ==
    SeqsUpTo({"ta"}, MaxTail)
       \cup {<<"ru">> \o tail : tail \in SeqsUpTo({"ta"}, MaxTail)}

\* One call whose definer calls resolve, in any order, or stay pending.
NextShrinking ==
    \/ \E tbl \in ShrinkTables : SetReasons(tbl) /\ UNCHANGED <<other, coreVars>>
    \/ \E term \in ShrinkTerms : Deinflect(term, {}) /\ UNCHANGED <<other, coreVars>>
    \/ \E n \in Explored : \E definitions \in PairResults :
          Resolve(n, definitions) /\ UNCHANGED <<other, coreVars>>
    \/ \E c \in Explored : Join(c) /\ UNCHANGED <<other, coreVars>>
    \/ Finish /\ UNCHANGED <<other, coreVars>>

\* The reactions of settled promises: the event loop runs every one of them.
\* The definer's promises are the caller's and may stay pending for ever.
Reactions ==
    /\ \/ \E c \in Explored : Join(c)
       \/ Finish
    /\ UNCHANGED <<other, coreVars>>

SpecShrinking == Init /\ [][NextShrinking]_vars /\ WF_vars(Reactions)

\* every variant of the table has a kanaOut shorter than its kanaIn
Shrinking(tbl) ==
    \A i \in 1..Len(Pairs(tbl)) :
       Len(Pairs(tbl)[i].variant.kanaOut) < Len(Pairs(tbl)[i].variant.kanaIn)

\* every definer call of the call was issued and has resolved
AllResolved ==
    status = "pending" /\ \A n \in Explored : lookup[n] = "fulfilled"

\* C32: under a rule table whose variants all have a kanaOut shorter than
\* their kanaIn, deinflect builds a finite tree (the recursion returns) in
\* which no candidate is more than Len(term) - 1 rule applications below
\* the entry point, and a call whose definer calls have all resolved
\* eventually resolves.
C32_ShrinkingTerminates ==
    /\ []((status # "idle" /\ Shrinking(table)) =>
            /\ status # "overflow"
            /\ \A n \in Explored : n # Root => Len(n) <= Len(SurfaceTerm) - 1)
    /\ (Shrinking(table) /\ AllResolved) ~> (status = "resolved")

\* a call under a shortening table resolved with a candidate exactly
\* Len(term) - 1 rule applications below the entry point, two or more
C32_Witness ==
    /\ status = "resolved"
    /\ table # <<>> /\ Shrinking(table)
    /\ \E n \in Explored : Len(n) >= 2 /\ Len(n) = Len(SurfaceTerm) - 1
    /\ Len(result) >= 3

----------------------------------------------------------------------------
(* QueryParser of ext/js/display/query-parser.js.  qp holds the fields      *)
(* _text, _setTextToken (the number of the setText call that made it, 0 for *)
(* null), _selectedParser and _parseResults, what #query-parser-content     *)
(* displays, and the parseText requests in the order they were made.       *)

\* most calls of setText
MaxSetTexts == 2

Texts == {"a", "b"}

\* null, or the id of a parser
NoParser == "null"
SelectedParsers == {NoParser, "scan", "mecab"}

\* the lists parseText can resolve with for a text: one item per parser that
\* was used, its content the parse of that text
ParseResults(text) ==
    { <<>>,
      << [id |-> "scan", content |-> text] >>,
      << [id |-> "scan", content |-> text], [id |-> "mecab", content |-> text] >> }

\* _renderParseResult: the content of the selected parser's result, or
\* nothing when it has none
RenderParseResult(parseResults, selectedParser) ==
    LET found == SelectSeq(parseResults, LAMBDA r : r.id = selectedParser)
    IN  [parsed |-> TRUE,
         content |-> IF found = <<>> THEN <<>> ELSE <<found[1].content>>]

\* the constructor
NewQueryParser ==
    [text |-> "", setTextToken |-> 0, selectedParser |-> NoParser,
     parseResults |-> <<>>,
     display |-> [parsed |-> FALSE, content |-> <<>>],
     requests |-> <<>>]

\* setText, up to its await: the text and its preview, a new token, the
\* parseText request
SetText(text) ==
    /\ Len(qp.requests) < MaxSetTexts
    /\ qp' = [qp EXCEPT !.text = text,
                        !.display = [parsed |-> FALSE, content |-> <<text>>],
                        !.setTextToken = Len(qp.requests) + 1,
                        !.requests = Append(@, [text |-> text, state |-> "pending"])]
    /\ UNCHANGED <<reasons, callVars, other, dp, pt, mh, ed, de>>

\* setText after its await, for the k-th call, when parseText resolved: the
\* results are assigned to _parseResults, then the token is compared, then
\* the results are rendered.
ResumeSetText(k, parseResults) ==
    /\ k \in 1..Len(qp.requests)
    /\ qp.requests[k].state = "pending"
    /\ qp' = [qp EXCEPT !.requests[k].state = "resolved",
                        !.parseResults = parseResults,
                        !.display = IF qp.setTextToken # k THEN @
                                    ELSE RenderParseResult(parseResults, qp.selectedParser)]
    /\ UNCHANGED <<reasons, callVars, other, dp, pt, mh, ed, de>>

\* parseText rejected: the await throws and setText stores nothing.
AbandonSetText(k) ==
    /\ k \in 1..Len(qp.requests)
    /\ qp.requests[k].state = "pending"
    /\ qp' = [qp EXCEPT !.requests[k].state = "rejected"]
    /\ UNCHANGED <<reasons, callVars, other, dp, pt, mh, ed, de>>

\* setOptions, as far as it reaches the parse results: a changed selected
\* parser renders the stored results again, if there are any.
SetOptions(selectedParser) ==
    LET selectedParserChanged == qp.selectedParser # selectedParser
    IN  /\ qp' = [qp EXCEPT !.selectedParser = selectedParser,
                            !.display = IF selectedParserChanged /\ Len(qp.parseResults) > 0
                                          THEN RenderParseResult(qp.parseResults, selectedParser)
                                          ELSE @]
        /\ UNCHANGED <<reasons, callVars, other, dp, pt, mh, ed, de>>

InitQueryParser ==
    /\ reasons = <<>>
    /\ status = IdleCall.status
    /\ table = IdleCall.table
    /\ node = IdleCall.node
    /\ definer = IdleCall.definer
    /\ lookup = IdleCall.lookup
    /\ fulfilled = IdleCall.fulfilled
    /\ promise = IdleCall.promise
    /\ joined = IdleCall.joined
    /\ result = IdleCall.result
    /\ error = IdleCall.error
    /\ other = Unused
    /\ dp = Unused /\ pt = Unused /\ mh = Unused /\ ed = Unused /\ de = Unused
    /\ qp = NewQueryParser

NextQueryParser ==
    \/ \E text \in Texts : SetText(text)
    \/ \E k \in 1..MaxSetTexts : \E text \in Texts :
          \E parseResults \in ParseResults(text) :
             /\ k <= Len(qp.requests)
             /\ qp.requests[k].text = text
             /\ ResumeSetText(k, parseResults)
    \/ \E k \in 1..MaxSetTexts : AbandonSetText(k)
    \/ \E selectedParser \in SelectedParsers : SetOptions(selectedParser)

SpecQueryParser == InitQueryParser /\ [][NextQueryParser]_vars

\* setText was called twice or more, every request has settled and the one
\* of the last call resolved
AllSettled ==
    /\ Len(qp.requests) >= 2
    /\ \A k \in 1..Len(qp.requests) : qp.requests[k].state # "pending"
    /\ qp.requests[Len(qp.requests)].state = "resolved"

\* C33: when setText was called again while an earlier request was
\* outstanding and all requests have settled, in whatever order, the stored
\* results are parses of the last text, and what is displayed as parsed, by
\* setText or by a later setOptions, is of the last text.
C33_LatestTextWins ==
    AllSettled =>
       /\ \A i \in 1..Len(qp.parseResults) : qp.parseResults[i].content = qp.text
       /\ qp.display.parsed => qp.display.content \in {<<>>, <<qp.text>>}

----------------------------------------------------------------------------
(* EventDispatcher.trigger with callbacks that call off while the event is  *)
(* dispatched.  'does' says, for every function, which function it passes   *)
(* to off(eventName, .) when it is called, or that it calls nothing.        *)

Nothing == "nothing"

\* The for-of loop of trigger from position index (counted from 0) on: the
\* array iterator reads the length and the element of the array at every
\* step, and off splices the array it iterates.
RECURSIVE Dispatching(_, _, _, _, _, _)
Dispatching(callbacks, index, called, does, registered, eventName) ==
    IF index >= Len(callbacks)
      THEN [callbacks |-> callbacks, called |-> called, registered |-> registered]
      ELSE LET callback == callbacks[index + 1]
               target == does[callback]
               found == {i \in 0..(Len(callbacks) - 1) : callbacks[i + 1] = target}
               i == CHOOSE k \in found : \A j \in found : k <= j
           IN  IF target = Nothing \/ found = {}
                 THEN Dispatching(callbacks, index + 1, Append(called, callback),
                                  does, registered, eventName)
                 ELSE Dispatching(SpliceOut(callbacks, i), index + 1,
                                  Append(called, callback), does,
                                  Unregistered([registered |-> registered], eventName, target),
                                  eventName)

\* EventDispatcher.trigger: 'before' are the callbacks registered when it
\* is called, 'called' those it called, in order
Dispatch(eventName, does) ==
    LET before == ed.eventMap[eventName]
        end == Dispatching(before, 0, <<>>, does, ed.registered, eventName)
    IN  /\ ed # Unused
        /\ eventName \in DOMAIN ed.eventMap
        /\ ed' = [eventMap |-> IF Len(end.callbacks) = 0
                                 THEN Delete(ed.eventMap, eventName)
                                 ELSE Set(ed.eventMap, eventName, end.callbacks),
                  last |-> [op |-> "dispatch", eventName |-> eventName,
                            returned |-> "true", called |-> end.called,
                            removed |-> end.callbacks # before, before |-> before],
                  registered |-> end.registered]
        /\ UNCHANGED <<reasons, callVars, other, dp, pt, mh, de, qp>>

NextDispatch ==
    \/ \E eventName \in EventNames : \E callback \in Listeners : On(eventName, callback)
    \/ \E eventName \in EventNames : \E callback \in Listeners : Off(eventName, callback)
    \/ \E eventName \in EventNames : \E does \in [Listeners -> Listeners \cup {Nothing}] :
          Dispatch(eventName, does)

SpecDispatch == InitEventDispatcher /\ [][NextDispatch]_vars

\* C34: trigger calls every callback registered for the event when it is
\* called, once each and in the order of registration, also when a callback
\* calls off for itself or for another callback of the event during the
\* dispatch.
C34_DispatchCallsAllRegistered ==
    (ed # Unused /\ ed.last.op = "dispatch") => ed.last.called = ed.last.before

====
